---------------------------- MODULE Spec2Model ----------------------------
(***************************************************************************)
(* Model of the CircuitVerse leaderboard generators.                       *)
(*                                                                         *)
(*   - the year generator (searchByDateChunks, ensureUser, addActivity,    *)
(*     generateYear, derivePeriod, generateRecentActivities);              *)
(*   - the per-period generator of scripts/generateLeaderboard.ts          *)
(*     (generate, run), which writes the same <period>.json files.         *)
(*                                                                         *)
(* Time.  An instant is an integer number of ticks, TicksPerDay ticks to   *)
(* the UTC day.  An ISO timestamp string is modelled by its instant, an    *)
(* ISO date string ("2025-01-31") by its day number; the order of ISO date *)
(* strings is the order of day numbers.  The host is taken to run in UTC,  *)
(* so that Date.setDate moves an instant by whole days.                    *)
(*                                                                         *)
(* null / undefined.  Both are modelled by the string NULL.                *)
(***************************************************************************)
EXTENDS Integers, Sequences, FiniteSets, TLC

VARIABLES
    clock,      \* the wall clock read by new Date() and Date.now()
    upstream,   \* the issues and pull requests GitHub holds (index = id)
    pc,         \* position of the running script
    since,      \* generateYear: since / generate: since
    now,        \* generateYear: now
    users,      \* the Map<string, UserEntry>, in insertion order
    queue,      \* the items the current for-loop has still to visit
    yearData,   \* generateYear: the yearData object handed to the derivers
    docs,       \* public/leaderboard/<period>.json, by period
    recent,     \* public/leaderboard/recent-activities.json
    idx,        \* index of the period being derived or generated
    cat,        \* index of the category being fetched and folded
    activities, \* generate: the activities list of the period being built
    cursor,     \* searchByDateChunks: cursor
    page,       \* searchByDateChunks: page
    all,        \* searchByDateChunks: all
    requests,   \* the search requests sent so far, in order
    fetchArgs,  \* searchByDateChunks: its arguments
    http,       \* the HTTP calls made so far, the time they took, the error thrown
    fold,       \* two aggregation passes over one multiset of classified events
    cache,      \* the freshness controller: its clock, configuration and record
    text,       \* a title, and what sanitizeTitle makes of it once and twice
    pager       \* PaginatedActivitySection: its props and state

vars == << clock, upstream, pc, since, now, users, queue, yearData, docs,
           recent, idx, cat, activities, cursor, page, all, requests,
           fetchArgs, http, fold, cache, text, pager >>

buildVars == << since, now, users, queue, yearData, docs, recent, idx, cat,
                activities >>

fetchVars == << cursor, page, all, requests, fetchArgs, http >>

foldVars == << fold >>

cacheVars == << cache >>

textVars == << text >>

pagerVars == << pager >>

(***************************************************************************)
(* Bounds of the model.                                                    *)
(***************************************************************************)
TicksPerDay == 2    \* resolution of the clock
MaxEvents == 2      \* issues and pull requests held upstream
MaxElapsed == 1     \* ticks the clock may advance during one run
MaxTitleLen == 3    \* characters of a title given to sanitizeTitle
MaxTtl == 3         \* largest TTL of a period, in units of cache time
MaxCeiling == 5     \* largest stale-ceiling of a period, in the same units
MaxReads == 3       \* reads a process serves
MaxActivities == 72 \* activities of a group shown by pages
StartDay == 400     \* the day on which the run starts

(***************************************************************************)
(* Program constants.                                                      *)
(***************************************************************************)
NULL == "<null>"

\* an absent timestamp (closed_at: null)
NoDate == 0 - 1

PR_OPENED == 2
PR_MERGED == 5
ISSUE_OPENED == 1

YearDays == 365
StepDays == 30
PerPage == 100
RecentDays == 14

\* sleep(2500): the throttle of ghSearch, in milliseconds
ThrottleMs == 2500

DerivedPeriods ==
    << [days |-> 7,  period |-> "week"],
       [days |-> 14, period |-> "2week"],
       [days |-> 21, period |-> "3week"],
       [days |-> 30, period |-> "month"],
       [days |-> 60, period |-> "2month"] >>

LegacyPeriods ==
    << [days |-> 7,   period |-> "week"],
       [days |-> 14,  period |-> "2week"],
       [days |-> 21,  period |-> "3week"],
       [days |-> 30,  period |-> "month"],
       [days |-> 60,  period |-> "2month"],
       [days |-> 365, period |-> "year"] >>

(***************************************************************************)
(* Generic helpers.                                                        *)
(***************************************************************************)
Range(s) == { s[i] : i \in 1..Len(s) }

Min(a, b) == IF a < b THEN a ELSE b

RECURSIVE SumSeq(_)
SumSeq(s) == IF s = << >> THEN 0 ELSE Head(s) + SumSeq(Tail(s))

RECURSIVE SumSet(_, _)
\* sum of f[x] over the finite set S
SumSet(f, S) ==
    IF S = {} THEN 0
    ELSE LET x == CHOOSE y \in S : TRUE IN f[x] + SumSet(f, S \ {x})

\* String.prototype.endsWith
EndsWith(s, suffix) ==
    /\ Len(s) >= Len(suffix)
    /\ SubSeq(s, Len(s) - Len(suffix) + 1, Len(s)) = suffix

(***************************************************************************)
(* Dates.                                                                  *)
(***************************************************************************)
\* d.toISOString().split("T")[0]: the UTC date of an instant
iso(d) == d \div TicksPerDay

\* date.split("T")[0]: the date part of an ISO timestamp string
DayOf(date) == date \div TicksPerDay

\* new Date("YYYY-MM-DD"): a date-only string parses to UTC midnight
DateOfDay(day) == day * TicksPerDay

\* daysAgo(n), evaluated when the clock reads t
daysAgo(t, n) == t - n * TicksPerDay


(***************************************************************************)
(* Title sanitizer.                                                        *)
(***************************************************************************)
IsSpace(c) == c \in { " ", "\t", "\n" }

RECURSIVE RemoveBrackets(_)
\* .replace(/\[|\]/g, "")
RemoveBrackets(s) ==
    IF s = "" THEN ""
    ELSE LET c == SubSeq(s, 1, 1)
             rest == RemoveBrackets(SubSeq(s, 2, Len(s)))
         IN  IF c \in { "[", "]" } THEN rest ELSE c \o rest

RECURSIVE ReplaceColons(_)
\* .replace(/:/g, " - ")
ReplaceColons(s) ==
    IF s = "" THEN ""
    ELSE LET c == SubSeq(s, 1, 1)
             rest == ReplaceColons(SubSeq(s, 2, Len(s)))
         IN  IF c = ":" THEN " - " \o rest ELSE c \o rest

RECURSIVE CollapseSpaces(_)
\* .replace(/\s+/g, " ")
CollapseSpaces(s) ==
    IF s = "" THEN ""
    ELSE LET c == SubSeq(s, 1, 1)
             rest == SubSeq(s, 2, Len(s))
         IN  IF IsSpace(c)
             THEN IF rest # "" /\ IsSpace(SubSeq(rest, 1, 1))
                  THEN CollapseSpaces(rest)
                  ELSE " " \o CollapseSpaces(rest)
             ELSE c \o CollapseSpaces(rest)

RECURSIVE TrimLeft(_)
TrimLeft(s) ==
    IF s # "" /\ IsSpace(SubSeq(s, 1, 1))
    THEN TrimLeft(SubSeq(s, 2, Len(s))) ELSE s

RECURSIVE TrimRight(_)
TrimRight(s) ==
    IF s # "" /\ IsSpace(SubSeq(s, Len(s), Len(s)))
    THEN TrimRight(SubSeq(s, 1, Len(s) - 1)) ELSE s

\* .trim()
Trim(s) == TrimRight(TrimLeft(s))

sanitizeTitle(title) ==
    IF title = NULL \/ title = "" THEN NULL
    ELSE Trim(CollapseSpaces(ReplaceColons(RemoveBrackets(title))))

(***************************************************************************)
(* Filters.                                                                *)
(***************************************************************************)
\* a falsy login or type is undefined, null or the empty string
Falsy(s) == s = NULL \/ s = ""

\* mutant: the account type is not looked at
isBotUserNoType(user) ==
    IF Falsy(user.login) THEN TRUE
    ELSE EndsWith(user.login, "[bot]")

isBotUser(user) ==
    IF Falsy(user.login) THEN TRUE
    ELSE IF ~Falsy(user.type) /\ user.type # "User" THEN TRUE
    ELSE EndsWith(user.login, "[bot]")

\* scripts/generateLeaderboard.ts
legacyIsBotUser(user) ==
    IF ~Falsy(user.type) /\ user.type # "User" THEN TRUE
    ELSE IF Falsy(user.login) THEN TRUE
    ELSE EndsWith(user.login, "[bot]")

(***************************************************************************)
(* Aggregator.                                                             *)
(***************************************************************************)
\* map.has(login): users is the Map's values in insertion order
HasUser(map, login) == \E i \in 1..Len(map) : map[i].username = login

\* position of login in the Map
UserIndex(map, login) == CHOOSE i \in 1..Len(map) : map[i].username = login

NewUserEntry(user) ==
    [ username |-> user.login,
      name |-> user.name,
      avatar_url |-> user.avatar_url,
      role |-> "Contributor",
      total_points |-> 0,
      activity_breakdown |-> << >>,
      daily_activity |-> << >>,
      raw_activities |-> << >> ]

\* mutant: the entry of a login already in the Map takes the name and the
\* avatar of the user of the event at hand
ensureUserLastWins(map, user) ==
    IF ~HasUser(map, user.login) THEN Append(map, NewUserEntry(user))
    ELSE [ map EXCEPT ![UserIndex(map, user.login)] =
             [ @ EXCEPT !.name = user.name, !.avatar_url = user.avatar_url ] ]

\* the Map after ensureUser(map, user)
ensureUser(map, user) ==
    IF ~HasUser(map, user.login) THEN Append(map, NewUserEntry(user)) ELSE map

\* mutant: the bucket counts the event and forgets its points
BumpBreakdownCountOnly(breakdown, type, points) ==
    IF type \in DOMAIN breakdown
    THEN [ breakdown EXCEPT ![type] = [ count |-> @.count + 1,
                                        points |-> @.points ] ]
    ELSE breakdown @@ (type :> [ count |-> 1, points |-> 0 ])

\* activity_breakdown[type] ??= {count: 0, points: 0}; count += 1; points += p
BumpBreakdown(breakdown, type, points) ==
    IF type \in DOMAIN breakdown
    THEN [ breakdown EXCEPT ![type] = [ count |-> @.count + 1,
                                        points |-> @.points + points ] ]
    ELSE breakdown @@ (type :> [ count |-> 1, points |-> points ])

\* daily_activity.find(d => d.date === day), then += or push
BumpDaily(daily, day, points) ==
    IF \E i \in 1..Len(daily) : daily[i].date = day
    THEN LET i == CHOOSE k \in 1..Len(daily) :
                      /\ daily[k].date = day
                      /\ \A j \in 1..(k - 1) : daily[j].date # day
         IN  [ daily EXCEPT ![i] = [ date |-> day,
                                     count |-> @.count + 1,
                                     points |-> @.points + points ] ]
    ELSE Append(daily, [ date |-> day, count |-> 1, points |-> points ])

\* mutant: the aggregates are updated and the event is not logged
addActivityNoLog(entry, type, date, points, meta) ==
    [ entry EXCEPT
        !.total_points = @ + points,
        !.activity_breakdown = BumpBreakdown(@, type, points),
        !.daily_activity = BumpDaily(@, DayOf(date), points) ]

\* the entry after addActivity(entry, type, date, points, meta)
addActivity(entry, type, date, points, meta) ==
    [ entry EXCEPT
        !.total_points = @ + points,
        !.activity_breakdown = BumpBreakdown(@, type, points),
        !.daily_activity = BumpDaily(@, DayOf(date), points),
        !.raw_activities = Append(@, [ type |-> type,
                                       occured_at |-> date,
                                       title |-> sanitizeTitle(meta.title),
                                       link |-> meta.link,
                                       points |-> points ]) ]

\* addActivity(ensureUser(users, item.user), type, date, points, {title, link})
FoldActivity(map, item, type, date, points) ==
    LET m == ensureUser(map, item.user)
        i == UserIndex(m, item.user.login)
    IN  [ m EXCEPT ![i] = addActivity(@, type, date, points,
                              [ title |-> item.title, link |-> item.html_url ]) ]

\* scripts/generateLeaderboard.ts: its entries keep no raw_activities
legacyNewUserEntry(user) ==
    [ username |-> user.login,
      name |-> user.name,
      avatar_url |-> user.avatar_url,
      role |-> "Contributor",
      total_points |-> 0,
      activity_breakdown |-> << >>,
      daily_activity |-> << >> ]

legacyEnsureUser(map, user) ==
    IF ~HasUser(map, user.login)
    THEN Append(map, legacyNewUserEntry(user)) ELSE map

legacyAddActivity(entry, type, date, points) ==
    IF date = NoDate THEN entry
    ELSE [ entry EXCEPT
             !.total_points = @ + points,
             !.activity_breakdown = BumpBreakdown(@, type, points),
             !.daily_activity = Append(@, [ date |-> DayOf(date),
                                            count |-> 1,
                                            points |-> points ]) ]

legacyFoldActivity(map, item, type, date, points) ==
    LET m == legacyEnsureUser(map, item.user)
        i == UserIndex(m, item.user.login)
    IN  [ m EXCEPT ![i] = legacyAddActivity(@, type, date, points) ]

(***************************************************************************)
(* Final step of a build: filter, then a stable sort.                      *)
(***************************************************************************)
\* mutant: the comparator is a.total_points - b.total_points
InsertByPointsAscending(sorted, e) ==
    LET k == Cardinality({ i \in 1..Len(sorted) :
                             sorted[i].total_points <= e.total_points })
    IN  SubSeq(sorted, 1, k) \o << e >> \o SubSeq(sorted, k + 1, Len(sorted))

\* insert e behind every element the comparator does not put after it
InsertByPoints(sorted, e) ==
    LET k == Cardinality({ i \in 1..Len(sorted) :
                             sorted[i].total_points >= e.total_points })
    IN  SubSeq(sorted, 1, k) \o << e >> \o SubSeq(sorted, k + 1, Len(sorted))

RECURSIVE SortFrom(_, _, _)
SortFrom(s, i, acc) ==
    IF i > Len(s) THEN acc ELSE SortFrom(s, i + 1, InsertByPoints(acc, s[i]))

\* .sort((a, b) => b.total_points - a.total_points): Array.prototype.sort is stable
SortByPoints(s) == SortFrom(s, 1, << >>)

HasPoints(u) == u.total_points > 0

\* [...users.values()].filter(u => u.total_points > 0).sort(...)
RankEntries(map) == SortByPoints(SelectSeq(map, HasPoints))


(***************************************************************************)
(* The upstream search API.                                                *)
(***************************************************************************)
\* mutant: the issues are searched and folded first
CategoriesIssuesFirst ==
    << [ query |-> "is:issue",        type |-> "Issue opened",
         points |-> ISSUE_OPENED,     date |-> "created_at" ],
       [ query |-> "is:pr",           type |-> "PR opened",
         points |-> PR_OPENED,        date |-> "created_at" ],
       [ query |-> "is:pr+is:merged", type |-> "PR merged",
         points |-> PR_MERGED,        date |-> "closed_at" ] >>

\* the three searches of a build, in the order generateYear makes them
Categories ==
    << [ query |-> "is:pr",           type |-> "PR opened",
         points |-> PR_OPENED,        date |-> "created_at" ],
       [ query |-> "is:pr+is:merged", type |-> "PR merged",
         points |-> PR_MERGED,        date |-> "closed_at" ],
       [ query |-> "is:issue",        type |-> "Issue opened",
         points |-> ISSUE_OPENED,     date |-> "created_at" ] >>

\* the qualifiers is:pr, is:pr is:merged, is:issue
MatchesQuery(item, query) ==
    CASE query = "is:pr" -> item.kind = "pr"
      [] query = "is:pr+is:merged" -> item.kind = "pr" /\ item.merged
      [] query = "is:issue" -> item.kind = "issue"

\* created:FROM..TO with two dates: GitHub's range is inclusive at both ends
InCreatedRange(item, from, to) ==
    from <= iso(item.created_at) /\ iso(item.created_at) <= to

\* the calendar dates a request created:FROM..TO asks for
DatesCovered(req) == req.from .. req.to

\* page number p (per_page=100) of the items matching q+created:from..to
SearchPage(items, query, from, to, p) ==
    LET hit(it) == MatchesQuery(it, query) /\ InCreatedRange(it, from, to)
        hits == SelectSeq(items, hit)
    IN  SubSeq(hits, (p - 1) * PerPage + 1, Min(Len(hits), p * PerPage))

\* mutant: the sub-range is not clamped to end
ChunkEndUnclamped(c, end, stepDays) == c + stepDays * TicksPerDay

\* to: next > end ? end : next, with next = cursor + stepDays days
ChunkEnd(c, end, stepDays) ==
    LET next == c + stepDays * TicksPerDay
    IN  IF next > end THEN end ELSE next

RECURSIVE SearchChunks(_, _, _, _, _, _, _)
\* the loops of searchByDateChunks from (cursor c, page p) on
SearchChunks(items, query, c, end, stepDays, p, acc) ==
    IF ~(c < end) THEN acc
    ELSE LET from == iso(c)
             to == ChunkEnd(c, end, stepDays)
             res == SearchPage(items, query, from, iso(to), p)
             acc2 == [ all |-> acc.all \o res,
                       requests |-> Append(acc.requests,
                           [ query |-> query, from |-> from,
                             to |-> iso(to), page |-> p ]) ]
         IN  IF Len(res) < PerPage
             THEN SearchChunks(items, query, to, end, stepDays, 1, acc2)
             ELSE SearchChunks(items, query, c, end, stepDays, p + 1, acc2)

\* searchByDateChunks(baseQuery, start, end, stepDays): what it returns (all)
\* and the requests it sent
searchByDateChunks(items, query, start, end, stepDays) ==
    SearchChunks(items, query, start, end, stepDays, 1,
                 [ all |-> << >>, requests |-> << >> ])

\* scripts/generateLeaderboard.ts: the one page fetched for a category,
\* created:>=since (merged:>=since for merged pull requests)
legacySearch(items, query, t) ==
    LET hit(it) ==
            /\ MatchesQuery(it, query)
            /\ IF query = "is:pr+is:merged"
               THEN it.closed_at >= t ELSE it.created_at >= t
        hits == SelectSeq(items, hit)
    IN  SubSeq(hits, 1, Min(Len(hits), PerPage))


(***************************************************************************)
(* The HTTP layer.  Time within a run is counted in milliseconds from the  *)
(* first call; the round trip of a call is taken to be instantaneous, so   *)
(* that the time between two calls is the time the scripts wait.           *)
(***************************************************************************)
\* a response with res.ok
OkResponse == [ status |-> 200, body |-> "{items}" ]

\* the responses without res.ok the model draws from
FailedResponses ==
    { [ status |-> 403, body |-> "rate limit exceeded" ],
      [ status |-> 500, body |-> "server error" ] }

\* res.ok
IsOk(resp) == resp.status \in 200..299

NoHttp == [ ms |-> 0, calls |-> << >>, error |-> NULL ]

\* the HTTP state after one ghSearch call that got the response resp: the
\* error is thrown before the sleep, the result returned after it
ghSearch(h, resp) ==
    LET ended == IF IsOk(resp) THEN h.ms + ThrottleMs ELSE h.ms
    IN  [ ms |-> ended,
          calls |-> Append(h.calls, [ by |-> "ghSearch",
                                      sentAt |-> h.ms,
                                      status |-> resp.status,
                                      body |-> resp.body,
                                      endedAt |-> ended ]),
          error |-> IF IsOk(resp) THEN h.error
                    ELSE << "GitHub API", resp.status, resp.body >> ]

RECURSIVE ghSearchTimes(_, _)
\* the HTTP state after n ghSearch calls that all got an ok response
ghSearchTimes(h, n) ==
    IF n = 0 THEN h ELSE ghSearchTimes(ghSearch(h, OkResponse), n - 1)

\* scripts/generateLeaderboard.ts: the HTTP state after one gh call
gh(h, resp) ==
    [ ms |-> h.ms,
      calls |-> Append(h.calls, [ by |-> "gh",
                                  sentAt |-> h.ms,
                                  status |-> resp.status,
                                  body |-> resp.body,
                                  endedAt |-> h.ms ]),
      error |-> IF IsOk(resp) THEN h.error
                ELSE << "GitHub API error", resp.status, resp.body >> ]

RECURSIVE SearchChunksFailing(_, _, _, _, _, _, _, _)
\* the loops of searchByDateChunks from (cursor c, page p) on, when the k-th
\* request from here gets a response without res.ok: the requests sent, and
\* the local array all as the throw leaves it
SearchChunksFailing(items, query, c, end, stepDays, p, acc, k) ==
    LET from == iso(c)
        to == ChunkEnd(c, end, stepDays)
        res == SearchPage(items, query, from, iso(to), p)
        sent == Append(acc.requests, [ query |-> query, from |-> from,
                                       to |-> iso(to), page |-> p ])
    IN  IF k <= 1 THEN [ all |-> acc.all, requests |-> sent ]
        ELSE IF Len(res) < PerPage
        THEN SearchChunksFailing(items, query, to, end, stepDays, 1,
                 [ all |-> acc.all \o res, requests |-> sent ], k - 1)
        ELSE SearchChunksFailing(items, query, c, end, stepDays, p + 1,
                 [ all |-> acc.all \o res, requests |-> sent ], k - 1)

\* mutant: the error is caught and the items fetched so far are returned
searchByDateChunksCatches(items, query, start, end, stepDays, k) ==
    LET r == SearchChunksFailing(items, query, start, end, stepDays, 1,
                                 [ all |-> << >>, requests |-> << >> ], k)
    IN  [ threw |-> FALSE, all |-> r.all, requests |-> r.requests ]

\* searchByDateChunks(baseQuery, start, end, stepDays) when its k-th request
\* fails: the promise rejects, the caller gets no array
searchByDateChunksFailing(items, query, start, end, stepDays, k) ==
    LET r == SearchChunksFailing(items, query, start, end, stepDays, 1,
                                 [ all |-> << >>, requests |-> << >> ], k)
    IN  [ threw |-> TRUE, all |-> << >>, requests |-> r.requests ]

(***************************************************************************)
(* Derived periods.                                                        *)
(***************************************************************************)
RECURSIVE DeriveLoop(_, _, _)
\* for (const a of acts) { total += ...; breakdown[type] ...; daily[day] ... }
\* daily is an object keyed by date string: Object.values lists it in
\* insertion order
DeriveLoop(acts, i, acc) ==
    IF i > Len(acts) THEN acc
    ELSE LET a == acts[i]
             day == DayOf(a.occured_at)
             have == \E k \in 1..Len(acc.daily) : acc.daily[k].date = day
             slot == IF have
                     THEN CHOOSE k \in 1..Len(acc.daily) : acc.daily[k].date = day
                     ELSE Len(acc.daily) + 1
             daily0 == IF have THEN acc.daily
                       ELSE Append(acc.daily,
                                   [ date |-> day, count |-> 0, points |-> 0 ])
             bd0 == IF a.type \in DOMAIN acc.breakdown THEN acc.breakdown
                    ELSE acc.breakdown @@ (a.type :> [ count |-> 0, points |-> 0 ])
         IN  DeriveLoop(acts, i + 1,
               [ total |-> acc.total + a.points,
                 breakdown |-> [ bd0 EXCEPT ![a.type] =
                                   [ count |-> @.count + 1,
                                     points |-> @.points + a.points ] ],
                 daily |-> [ daily0 EXCEPT ![slot] =
                                   [ date |-> day,
                                     count |-> @.count + 1,
                                     points |-> @.points + a.points ] ] ])

\* the object the .map callback of derivePeriod returns
DerivedRecord(entry, acts, total, breakdown, daily) ==
    [ username |-> entry.username,
      name |-> entry.name,
      avatar_url |-> entry.avatar_url,
      role |-> entry.role,
      total_points |-> total,
      activity_breakdown |-> breakdown,
      daily_activity |-> daily,
      activities |->
        [ i \in 1..Len(acts) |->
            [ type |-> acts[i].type,
              title |-> acts[i].title,
              occured_at |-> acts[i].occured_at,
              link |-> acts[i].link,
              points |-> acts[i].points,
              contributor |-> entry.username,
              contributor_name |-> entry.name,
              contributor_avatar_url |-> entry.avatar_url ] ] ]

NoDerived == [ total |-> 0, breakdown |-> << >>, daily |-> << >> ]

\* mutant: an event at the cutoff instant is left out
DeriveEntryStrict(entry, cutoff) ==
    LET inRange(a) == a.occured_at > cutoff
        acts == SelectSeq(entry.raw_activities, inRange)
        r == DeriveLoop(acts, 1, NoDerived)
    IN  IF Len(acts) = 0 THEN << >>
        ELSE << DerivedRecord(entry, acts, r.total, r.breakdown, r.daily) >>

\* mutant: the aggregates are copied from the canonical entry
DeriveEntryCopies(entry, cutoff) ==
    LET inRange(a) == a.occured_at >= cutoff
        acts == SelectSeq(entry.raw_activities, inRange)
    IN  IF Len(acts) = 0 THEN << >>
        ELSE << DerivedRecord(entry, acts, entry.total_points,
                              entry.activity_breakdown,
                              entry.daily_activity) >>

\* mutant: the events kept are those at or before the cutoff
DeriveEntryOlder(entry, cutoff) ==
    LET inRange(a) == a.occured_at <= cutoff
        acts == SelectSeq(entry.raw_activities, inRange)
        r == DeriveLoop(acts, 1, NoDerived)
    IN  IF Len(acts) = 0 THEN << >>
        ELSE << DerivedRecord(entry, acts, r.total, r.breakdown, r.daily) >>

\* the .map callback of derivePeriod: no entry (null, filtered out) or one
DeriveEntry(entry, cutoff) ==
    LET inRange(a) == a.occured_at >= cutoff
        acts == SelectSeq(entry.raw_activities, inRange)
        r == DeriveLoop(acts, 1, NoDerived)
    IN  IF Len(acts) = 0 THEN << >>
        ELSE << DerivedRecord(entry, acts, r.total, r.breakdown, r.daily) >>

RECURSIVE DeriveEntries(_, _, _)
\* source.entries.map(...).filter(e => e !== null)
DeriveEntries(entries, cutoff, i) ==
    IF i > Len(entries) THEN << >>
    ELSE DeriveEntry(entries[i], cutoff) \o DeriveEntries(entries, cutoff, i + 1)

\* mutant: the canonical log is cut to the window in place
derivePeriodInPlace(source, days, period, t) ==
    LET cutoff == daysAgo(t, days)
        inRange(a) == a.occured_at >= cutoff
    IN  [ source |-> [ source EXCEPT !.entries =
                         [ i \in 1..Len(source.entries) |->
                             [ source.entries[i] EXCEPT !.raw_activities =
                                 SelectSeq(@, inRange) ] ] ],
          doc |-> [ period |-> period,
                    updatedAt |-> t,
                    startDate |-> iso(cutoff),
                    endDate |-> iso(t),
                    entries |-> SortByPoints(
                                    DeriveEntries(source.entries, cutoff, 1)) ] ]

\* derivePeriod(source, days, period), run when the clock reads t: the
\* document it writes, and source as the call leaves it
derivePeriod(source, days, period, t) ==
    LET cutoff == daysAgo(t, days)
    IN  [ source |-> source,
          doc |-> [ period |-> period,
                    updatedAt |-> t,
                    startDate |-> iso(cutoff),
                    endDate |-> iso(t),
                    entries |-> SortByPoints(
                                    DeriveEntries(source.entries, cutoff, 1)) ] ]

(***************************************************************************)
(* Recent activities.                                                      *)
(***************************************************************************)
\* mutant: the item always starts a group of its own
PushGroupAlwaysNew(groups, day, item) ==
    Append(groups, [ date |-> day, items |-> << item >> ])

\* groups.set(day, groups.get(day) ?? []); groups.get(day).push(item)
PushGroup(groups, day, item) ==
    IF \E k \in 1..Len(groups) : groups[k].date = day
    THEN LET k == CHOOSE j \in 1..Len(groups) : groups[j].date = day
         IN  [ groups EXCEPT ![k].items = Append(@, item) ]
    ELSE Append(groups, [ date |-> day, items |-> << item >> ])

RECURSIVE RecentActs(_, _, _, _, _)
\* for (const act of entry.raw_activities) { ... }
RecentActs(entry, acts, cutoff, j, groups) ==
    IF j > Len(acts) THEN groups
    ELSE LET act == acts[j]
             day == DayOf(act.occured_at)
         IN  IF DateOfDay(day) < cutoff
             THEN RecentActs(entry, acts, cutoff, j + 1, groups)
             ELSE RecentActs(entry, acts, cutoff, j + 1,
                    PushGroup(groups, day,
                      [ username |-> entry.username,
                        name |-> entry.name,
                        title |-> act.title,
                        link |-> act.link,
                        avatar_url |-> entry.avatar_url,
                        points |-> act.points ]))

RECURSIVE RecentEntries(_, _, _, _)
\* for (const entry of source.entries) { ... }
RecentEntries(entries, cutoff, i, groups) ==
    IF i > Len(entries) THEN groups
    ELSE RecentEntries(entries, cutoff, i + 1,
             RecentActs(entries[i], entries[i].raw_activities, cutoff, 1, groups))

\* insert g behind every group whose date is not earlier
InsertByDate(sorted, g) ==
    LET k == Cardinality({ i \in 1..Len(sorted) : sorted[i].date >= g.date })
    IN  SubSeq(sorted, 1, k) \o << g >> \o SubSeq(sorted, k + 1, Len(sorted))

RECURSIVE SortGroupsFrom(_, _, _)
SortGroupsFrom(s, i, acc) ==
    IF i > Len(s) THEN acc
    ELSE SortGroupsFrom(s, i + 1, InsertByDate(acc, s[i]))

\* .sort((a, b) => b[0].localeCompare(a[0]))
SortGroups(groups) == SortGroupsFrom(groups, 1, << >>)

\* generateRecentActivities(source, days), run when the clock reads t
generateRecentActivities(source, days, t) ==
    LET cutoff == daysAgo(t, days)
    IN  [ source |-> source,
          doc |-> [ updatedAt |-> t,
                    groups |-> SortGroups(
                                 RecentEntries(source.entries, cutoff, 1, << >>)) ] ]

\* fs.writeFileSync of <period>.json
WriteFile(files, period, doc) ==
    [ p \in DOMAIN files \cup { period } |->
        IF p = period THEN doc ELSE files[p] ]


(***************************************************************************)
(* The inputs: what GitHub holds when a script starts.                     *)
(***************************************************************************)
\* the script starts in the course of day StartDay
StartClock == StartDay * TicksPerDay + 1

Alice == [ login |-> "alice", type |-> "User", name |-> "Alice",
           avatar_url |-> "alice.png" ]
\* the account alice after its owner has changed its name and avatar
AliceLater == [ login |-> "alice", type |-> "User", name |-> "Alice L.",
                avatar_url |-> "alice-new.png" ]
Bob   == [ login |-> "bob", type |-> NULL, name |-> NULL,
           avatar_url |-> NULL ]
CiBot == [ login |-> "ci[bot]", type |-> "User", name |-> NULL,
           avatar_url |-> NULL ]
Org   == [ login |-> "circuitverse", type |-> "Organization", name |-> NULL,
           avatar_url |-> "org.png" ]
Ghost == [ login |-> NULL, type |-> "User", name |-> NULL,
           avatar_url |-> NULL ]

Humans == { Alice, AliceLater, Bob }
Bots == { CiBot, Org, Ghost }
Actors == Humans \cup Bots

\* creation times: earlier today, the instants 7, 8 and 14 days before the
\* start, and the instant StepDays days after the start of the year window
EventTimes ==
    { StartClock - 1,
      StartClock - 7 * TicksPerDay,
      StartClock - 8 * TicksPerDay,
      StartClock - 14 * TicksPerDay,
      StartClock - (YearDays - StepDays) * TicksPerDay }

TitleOf(kind, merged) ==
    IF kind = "issue" THEN "[Bug]: crash  on\tload "
    ELSE IF merged THEN "Fix it" ELSE NULL

\* an issue or pull request without its id
Shapes ==
    { [ user |-> u, kind |-> "issue", merged |-> FALSE, created_at |-> c,
        closed_at |-> NoDate, title |-> TitleOf("issue", FALSE) ] :
        u \in Actors, c \in EventTimes }
    \cup
    { [ user |-> u, kind |-> "pr", merged |-> FALSE, created_at |-> c,
        closed_at |-> NoDate, title |-> TitleOf("pr", FALSE) ] :
        u \in Actors, c \in EventTimes }
    \cup
    { [ user |-> u, kind |-> "pr", merged |-> TRUE, created_at |-> c,
        closed_at |-> d, title |-> TitleOf("pr", TRUE) ] :
        u \in Actors, c \in EventTimes, d \in EventTimes }

\* the shapes the model draws from: Alice opens issues, and pull requests
\* that are merged on the day they were opened or today, or are still open
\* today; Bob opens pull requests that stay open; the excluded actors act
\* today; alice's account opens issues today under its later name
IsShape(x) ==
    /\ x.merged => x.closed_at \in { x.created_at, StartClock - 1 }
    /\ x.user = Bob => (x.kind = "pr" /\ ~x.merged)
    /\ x.user = AliceLater =>
         (x.kind = "issue" /\ x.created_at = StartClock - 1)
    /\ (x.user = Alice /\ x.kind = "pr" /\ ~x.merged) =>
         x.created_at = StartClock - 1
    /\ x.user \in Bots =>
         x.created_at = StartClock - 1 /\ (x.kind = "issue" \/ x.merged)

WithId(shape, id) ==
    [ id |-> id, user |-> shape.user, kind |-> shape.kind,
      merged |-> shape.merged, created_at |-> shape.created_at,
      closed_at |-> shape.closed_at, title |-> shape.title,
      html_url |-> << "html_url", id >> ]

\* up to MaxEvents items; ids grow with the creation time
Universes ==
    UNION { { [ i \in 1..n |-> WithId(f[i], i) ] :
              f \in { g \in [ 1..n -> { x \in Shapes : IsShape(x) } ] :
                        \A i \in 1..(n - 1) :
                            g[i].created_at <= g[i + 1].created_at } } :
            n \in 0..MaxEvents }

(***************************************************************************)
(* The scripts.                                                            *)
(***************************************************************************)
NoFetch == [ query |-> "", start |-> 0, end |-> 0, stepDays |-> 0 ]

\* no aggregation pass is being compared
NoFold == [ first |-> << >>, second |-> << >>, mapA |-> << >>, mapB |-> << >>,
            entriesA |-> << >>, entriesB |-> << >> ]

\* no read is being served
NoCache == [ state |-> "off" ]

\* no activity section is on the screen
NoPager == [ state |-> "off" ]

\* no title is being sanitized
NoText == [ input |-> "", once |-> "", twice |-> "", calls |-> 0 ]

NoDoc == [ entries |-> << >> ]

\* recent-activities.json is not written yet
NoRecent == [ updatedAt |-> NoDate, groups |-> << >> ]

Init ==
    /\ clock = StartClock
    /\ upstream \in Universes
    /\ pc = "idle"
    /\ since = 0
    /\ now = 0
    /\ users = << >>
    /\ queue = << >>
    /\ yearData = NoDoc
    /\ docs = << >>
    /\ recent = NoRecent
    /\ idx = 0
    /\ cat = 0
    /\ activities = << >>
    /\ pager = NoPager
    /\ cursor = 0
    /\ page = 0
    /\ all = << >>
    /\ requests = << >>
    /\ fetchArgs = NoFetch
    /\ http = NoHttp
    /\ fold = NoFold
    /\ cache = NoCache
    /\ text = NoText

\* time passes while generateYear runs, whose derivers read the clock again
Tick ==
    /\ pc \in { "fetch", "fold", "write", "derive", "recent" }
    /\ clock - StartClock < MaxElapsed
    /\ clock' = clock + 1
    /\ UNCHANGED << pagerVars, foldVars, cacheVars, textVars, upstream, pc, buildVars, fetchVars >>

\* generateYear: since, now, users
GenerateYearStart ==
    /\ pc = "idle"
    /\ since' = daysAgo(clock, YearDays)
    /\ now' = clock
    /\ users' = << >>
    /\ cat' = 1
    /\ pc' = "fetch"
    /\ UNCHANGED << pagerVars, foldVars, cacheVars, textVars, clock, upstream, queue, yearData, docs, recent, idx,
                    activities, fetchVars >>

\* await searchByDateChunks(`org:${ORG}+<query>`, since, now)
FetchCategory ==
    /\ pc = "fetch"
    /\ LET r == searchByDateChunks(upstream, Categories[cat].query,
                                   since, now, StepDays)
       IN  /\ queue' = r.all
           /\ requests' = requests \o r.requests
           /\ http' = ghSearchTimes(http, Len(r.requests))
    /\ pc' = "fold"
    /\ UNCHANGED << pagerVars, foldVars, cacheVars, textVars, clock, upstream, since, now, users, yearData, docs,
                    recent, idx, cat, activities, cursor, page, all,
                    fetchArgs >>

\* await searchByDateChunks(...) when one of its requests gets a response
\* without res.ok: generateYear rejects and .catch ends the process
FetchFails ==
    /\ pc = "fetch"
    /\ \E resp \in FailedResponses :
       \E k \in 1..Len(searchByDateChunks(upstream, Categories[cat].query,
                                          since, now, StepDays).requests) :
          LET r == searchByDateChunksFailing(upstream, Categories[cat].query,
                                             since, now, StepDays, k)
          IN  /\ queue' = r.all
              /\ requests' = requests \o r.requests
              /\ http' = ghSearch(ghSearchTimes(http, k - 1), resp)
              /\ pc' = IF r.threw THEN "failed" ELSE "fold"
    /\ UNCHANGED << pagerVars, foldVars, cacheVars, textVars, clock, upstream, since, now, users, yearData, docs,
                    recent, idx, cat, activities, cursor, page, all,
                    fetchArgs >>

\* pr.created_at, pr.closed_at, issue.created_at
ActivityDate(item, c) ==
    IF Categories[c].date = "closed_at" THEN item.closed_at ELSE item.created_at

\* one iteration of a for-loop of generateYear
FoldItem ==
    /\ pc = "fold"
    /\ queue # << >>
    /\ LET item == Head(queue)
       IN  users' = IF isBotUser(item.user) THEN users
                    ELSE FoldActivity(users, item, Categories[cat].type,
                                      ActivityDate(item, cat),
                                      Categories[cat].points)
    /\ queue' = Tail(queue)
    /\ UNCHANGED << pagerVars, foldVars, cacheVars, textVars, clock, upstream, pc, since, now, yearData, docs, recent,
                    idx, cat, activities, fetchVars >>

\* the for-loop ends: on to the next search, or to the output
FoldEnd ==
    /\ pc = "fold"
    /\ queue = << >>
    /\ IF cat < Len(Categories)
       THEN cat' = cat + 1 /\ pc' = "fetch"
       ELSE cat' = cat /\ pc' = "write"
    /\ UNCHANGED << pagerVars, foldVars, cacheVars, textVars, clock, upstream, since, now, users, queue, yearData, docs,
                    recent, idx, activities, fetchVars >>

\* entries, yearData, year.json
WriteYear ==
    /\ pc = "write"
    /\ LET data == [ period |-> "year",
                     updatedAt |-> clock,
                     startDate |-> iso(since),
                     endDate |-> iso(now),
                     entries |-> RankEntries(users) ]
       IN  /\ yearData' = data
           /\ docs' = WriteFile(docs, "year", data)
    /\ idx' = 1
    /\ pc' = "derive"
    /\ UNCHANGED << pagerVars, foldVars, cacheVars, textVars, clock, upstream, since, now, users, queue, recent, cat,
                    activities, fetchVars >>

\* derivePeriod(yearData, 7, "week"); ... derivePeriod(yearData, 60, "2month")
DerivePeriod ==
    /\ pc = "derive"
    /\ LET r == derivePeriod(yearData, DerivedPeriods[idx].days,
                             DerivedPeriods[idx].period, clock)
       IN  /\ yearData' = r.source
           /\ docs' = WriteFile(docs, DerivedPeriods[idx].period, r.doc)
    /\ IF idx < Len(DerivedPeriods)
       THEN idx' = idx + 1 /\ pc' = "derive"
       ELSE idx' = idx /\ pc' = "recent"
    /\ UNCHANGED << pagerVars, foldVars, cacheVars, textVars, clock, upstream, since, now, users, queue, recent, cat,
                    activities, fetchVars >>

\* generateRecentActivities(yearData, 14)
GenerateRecent ==
    /\ pc = "recent"
    /\ LET r == generateRecentActivities(yearData, RecentDays, clock)
       IN  /\ yearData' = r.source
           /\ recent' = r.doc
    /\ pc' = "done"
    /\ UNCHANGED << pagerVars, foldVars, cacheVars, textVars, clock, upstream, since, now, users, queue, docs, idx, cat,
                    activities, fetchVars >>

(***************************************************************************)
(* scripts/generateLeaderboard.ts: run() generates the six periods, each   *)
(* from its own three searches.                                            *)
(***************************************************************************)
\* slug prefix and type of the activities list, per category
LegacyLabels ==
    << [ slug |-> "pr-opened",    type |-> "PR opened" ],
       [ slug |-> "pr-merged",    type |-> "PR Merged" ],
       [ slug |-> "issue-opened", type |-> "Issue opened" ] >>

\* the element generate pushes on activities for item, in category c
legacyActivityItem(item, c) ==
    [ slug |-> << LegacyLabels[c].slug, item.id >>,
      type |-> LegacyLabels[c].type,
      title |-> item.title,
      date |-> ActivityDate(item, c),
      points |-> Categories[c].points,
      link |-> item.html_url,
      contributor |-> item.user.login,
      contributor_name |-> item.user.login,
      contributor_avatar_url |-> item.user.avatar_url ]

\* run(): the first generate call is next
RunStart ==
    /\ pc = "idle"
    /\ idx' = 1
    /\ pc' = "l_start"
    /\ UNCHANGED << pagerVars, foldVars, cacheVars, textVars, clock, upstream, since, now, users, queue, yearData, docs,
                    recent, cat, activities, fetchVars >>

\* generate(period, days): since, users, activities
LegacyGenerateStart ==
    /\ pc = "l_start"
    /\ since' = daysAgo(clock, LegacyPeriods[idx].days)
    /\ users' = << >>
    /\ activities' = << >>
    /\ cat' = 1
    /\ pc' = "l_fetch"
    /\ UNCHANGED << pagerVars, foldVars, cacheVars, textVars, clock, upstream, now, queue, yearData, docs, recent, idx,
                    fetchVars >>

\* await gh(`.../search/issues?q=org:${ORG}+<query>:>=${since}&per_page=100`)
LegacyFetch ==
    /\ pc = "l_fetch"
    /\ queue' = legacySearch(upstream, Categories[cat].query, since)
    /\ requests' = Append(requests, [ query |-> Categories[cat].query,
                                      from |-> since, to |-> NoDate,
                                      page |-> 1 ])
    /\ http' = gh(http, OkResponse)
    /\ pc' = "l_fold"
    /\ UNCHANGED << pagerVars, foldVars, cacheVars, textVars, clock, upstream, since, now, users, yearData, docs,
                    recent, idx, cat, activities, cursor, page, all,
                    fetchArgs >>

\* await gh(...) when the response is without res.ok: generate and run reject
LegacyFetchFails ==
    /\ pc = "l_fetch"
    /\ \E resp \in FailedResponses : http' = gh(http, resp)
    /\ requests' = Append(requests, [ query |-> Categories[cat].query,
                                      from |-> since, to |-> NoDate,
                                      page |-> 1 ])
    /\ pc' = "failed"
    /\ UNCHANGED << pagerVars, foldVars, cacheVars, textVars, clock, upstream, since, now, users, queue, yearData, docs,
                    recent, idx, cat, activities, cursor, page, all,
                    fetchArgs >>

\* one iteration of a for-loop of generate
LegacyFoldItem ==
    /\ pc = "l_fold"
    /\ queue # << >>
    /\ LET item == Head(queue)
       IN  IF legacyIsBotUser(item.user)
           THEN UNCHANGED << pagerVars, users, activities >>
           ELSE /\ users' = legacyFoldActivity(users, item,
                                Categories[cat].type, ActivityDate(item, cat),
                                Categories[cat].points)
                /\ activities' = Append(activities,
                                        legacyActivityItem(item, cat))
    /\ queue' = Tail(queue)
    /\ UNCHANGED << pagerVars, foldVars, cacheVars, textVars, clock, upstream, pc, since, now, yearData, docs, recent,
                    idx, cat, fetchVars >>

LegacyFoldEnd ==
    /\ pc = "l_fold"
    /\ queue = << >>
    /\ IF cat < Len(Categories)
       THEN cat' = cat + 1 /\ pc' = "l_fetch"
       ELSE cat' = cat /\ pc' = "l_write"
    /\ UNCHANGED << pagerVars, foldVars, cacheVars, textVars, clock, upstream, since, now, users, queue, yearData, docs,
                    recent, idx, activities, fetchVars >>

\* entries, json, <period>.json; then the next generate call of run()
LegacyWrite ==
    /\ pc = "l_write"
    /\ docs' = WriteFile(docs, LegacyPeriods[idx].period,
                 [ period |-> LegacyPeriods[idx].period,
                   updatedAt |-> clock,
                   startDate |-> iso(daysAgo(clock, LegacyPeriods[idx].days)),
                   endDate |-> iso(clock),
                   entries |-> RankEntries(users),
                   activities |-> activities ])
    /\ IF idx < Len(LegacyPeriods)
       THEN idx' = idx + 1 /\ pc' = "l_start"
       ELSE idx' = idx /\ pc' = "done"
    /\ UNCHANGED << pagerVars, foldVars, cacheVars, textVars, clock, upstream, since, now, users, queue, yearData,
                    recent, cat, activities, fetchVars >>

Next ==
    \/ Tick
    \/ GenerateYearStart
    \/ FetchCategory
    \/ FetchFails
    \/ FoldItem
    \/ FoldEnd
    \/ WriteYear
    \/ DerivePeriod
    \/ GenerateRecent
    \/ RunStart
    \/ LegacyGenerateStart
    \/ LegacyFetch
    \/ LegacyFetchFails
    \/ LegacyFoldItem
    \/ LegacyFoldEnd
    \/ LegacyWrite

Spec == Init /\ [][Next]_vars

(***************************************************************************)
(* searchByDateChunks, request by request.                                 *)
(***************************************************************************)
\* the calls followed: generateYear's (a year by steps of 30 days) and
\* shorter ranges, by steps that divide the range or do not
FetchCases ==
    { [ days |-> YearDays, stepDays |-> StepDays ],
      [ days |-> 14, stepDays |-> 7 ],
      [ days |-> 8, stepDays |-> 3 ],
      [ days |-> 1, stepDays |-> StepDays ] }

InitFetch ==
    /\ clock = StartClock
    /\ upstream \in Universes
    /\ pc = "searching"
    /\ \E c \in FetchCases, k \in 1..Len(Categories) :
          fetchArgs = [ query |-> Categories[k].query,
                        start |-> daysAgo(StartClock, c.days),
                        end |-> StartClock,
                        stepDays |-> c.stepDays ]
    /\ cursor = fetchArgs.start
    /\ page = 1
    /\ all = << >>
    /\ requests = << >>
    /\ http = NoHttp
    /\ fold = NoFold
    /\ cache = NoCache
    /\ text = NoText
    /\ since = 0
    /\ now = 0
    /\ users = << >>
    /\ queue = << >>
    /\ yearData = NoDoc
    /\ docs = << >>
    /\ recent = NoRecent
    /\ idx = 0
    /\ cat = 0
    /\ activities = << >>
    /\ pager = NoPager

\* one ghSearch call of the inner loop, and what the loops do with its result
SearchRequest ==
    /\ pc = "searching"
    /\ cursor < fetchArgs.end
    /\ LET from == iso(cursor)
           to == ChunkEnd(cursor, fetchArgs.end, fetchArgs.stepDays)
           res == SearchPage(upstream, fetchArgs.query, from, iso(to), page)
       IN  /\ requests' = Append(requests, [ query |-> fetchArgs.query,
                                             from |-> from, to |-> iso(to),
                                             page |-> page ])
           /\ all' = all \o res
           /\ IF Len(res) < PerPage
              THEN cursor' = to /\ page' = 1
              ELSE cursor' = cursor /\ page' = page + 1
    /\ http' = ghSearch(http, OkResponse)
    /\ UNCHANGED << pagerVars, foldVars, cacheVars, textVars, clock, upstream, pc, fetchArgs, buildVars >>

\* one ghSearch call of the inner loop that throws: the loops are left
SearchFails ==
    /\ pc = "searching"
    /\ cursor < fetchArgs.end
    /\ requests' = Append(requests,
                      [ query |-> fetchArgs.query, from |-> iso(cursor),
                        to |-> iso(ChunkEnd(cursor, fetchArgs.end,
                                            fetchArgs.stepDays)),
                        page |-> page ])
    /\ \E resp \in FailedResponses : http' = ghSearch(http, resp)
    /\ pc' = "failed"
    /\ UNCHANGED << pagerVars, foldVars, cacheVars, textVars, clock, upstream, cursor, page, all, fetchArgs, buildVars >>

\* while (cursor < end) ends: return all
SearchReturn ==
    /\ pc = "searching"
    /\ ~(cursor < fetchArgs.end)
    /\ pc' = "returned"
    /\ UNCHANGED << pagerVars, foldVars, cacheVars, textVars, clock, upstream, fetchVars, buildVars >>

NextFetch ==
    \/ SearchRequest
    \/ SearchFails
    \/ SearchReturn

SpecFetch == InitFetch /\ [][NextFetch]_vars

\* the loops run on: an awaited call returns or throws, and the statement
\* after it is executed
SpecFetchLive == SpecFetch /\ WF_vars(NextFetch)

\* the request-by-request loops return what searchByDateChunks is taken to
\* return in a build
FetchAgrees ==
    pc = "returned" =>
        LET r == searchByDateChunks(upstream, fetchArgs.query, fetchArgs.start,
                                    fetchArgs.end, fetchArgs.stepDays)
        IN  all = r.all /\ requests = r.requests


(***************************************************************************)
(* The aggregator over two orderings of one multiset of classified events. *)
(***************************************************************************)
\* the classified events of a build, in the order generateYear folds them:
\* per category, the matching items whose actor isBotUser lets through
ClassifiedEvents(items) ==
    LET ofCat(k) ==
            LET hit(it) == /\ MatchesQuery(it, Categories[k].query)
                           /\ ~isBotUser(it.user)
                hits == SelectSeq(items, hit)
            IN  [ i \in 1..Len(hits) |-> [ item |-> hits[i], cat |-> k ] ]
    IN  ofCat(1) \o ofCat(2) \o ofCat(3)

\* the permutations of 1..n: the ways to reorder n events
Orderings(n) ==
    { f \in [ 1..n -> 1..n ] : \A i, j \in 1..n : i # j => f[i] # f[j] }

\* addActivity(ensureUser(users, item.user), ...) for one classified event
FoldEvent(map, ev) ==
    FoldActivity(map, ev.item, Categories[ev.cat].type,
                 ActivityDate(ev.item, ev.cat), Categories[ev.cat].points)

InitFold ==
    /\ clock = StartClock
    /\ upstream \in Universes
    /\ pc = "folding"
    /\ \E f \in Orderings(Len(ClassifiedEvents(upstream))) :
          LET evs == ClassifiedEvents(upstream)
          IN  fold = [ first |-> evs,
                       second |-> [ i \in 1..Len(evs) |-> evs[f[i]] ],
                       mapA |-> << >>, mapB |-> << >>,
                       entriesA |-> << >>, entriesB |-> << >> ]
    /\ cache = NoCache
    /\ text = NoText
    /\ http = NoHttp
    /\ cursor = 0
    /\ page = 0
    /\ all = << >>
    /\ requests = << >>
    /\ fetchArgs = NoFetch
    /\ since = 0
    /\ now = 0
    /\ users = << >>
    /\ queue = << >>
    /\ yearData = NoDoc
    /\ docs = << >>
    /\ recent = NoRecent
    /\ idx = 0
    /\ cat = 0
    /\ activities = << >>
    /\ pager = NoPager

\* one iteration of the for-loops over the first ordering
FoldFirst ==
    /\ pc = "folding"
    /\ fold.first # << >>
    /\ fold' = [ fold EXCEPT !.mapA = FoldEvent(@, Head(fold.first)),
                             !.first = Tail(@) ]
    /\ UNCHANGED << pagerVars, cacheVars, textVars, clock, upstream, pc, buildVars, fetchVars >>

\* one iteration of the for-loops over the second ordering
FoldSecond ==
    /\ pc = "folding"
    /\ fold.first = << >>
    /\ fold.second # << >>
    /\ fold' = [ fold EXCEPT !.mapB = FoldEvent(@, Head(fold.second)),
                             !.second = Tail(@) ]
    /\ UNCHANGED << pagerVars, cacheVars, textVars, clock, upstream, pc, buildVars, fetchVars >>

\* entries = [...users.values()].filter(...).sort(...), for both Maps
RankBoth ==
    /\ pc = "folding"
    /\ fold.first = << >>
    /\ fold.second = << >>
    /\ fold' = [ fold EXCEPT !.entriesA = RankEntries(fold.mapA),
                             !.entriesB = RankEntries(fold.mapB) ]
    /\ pc' = "ranked"
    /\ UNCHANGED << pagerVars, cacheVars, textVars, clock, upstream, buildVars, fetchVars >>

NextFold ==
    \/ FoldFirst
    \/ FoldSecond
    \/ RankBoth

SpecFold == InitFold /\ [][NextFold]_vars

(***************************************************************************)
(* sanitizeTitle on its own, applied to a title and then to its result.    *)
(***************************************************************************)
\* the characters titles are made of
TitleChars == { "a", "[", "]", ":", " ", "\t" }

RECURSIVE TitlesOfLen(_)
TitlesOfLen(n) ==
    IF n = 0 THEN { "" }
    ELSE { c \o t : c \in TitleChars, t \in TitlesOfLen(n - 1) }

\* the titles of at most MaxTitleLen characters
Titles == UNION { TitlesOfLen(n) : n \in 0..MaxTitleLen }

InitTitle ==
    /\ clock = StartClock
    /\ upstream = << >>
    /\ pc = "title"
    /\ \E t \in Titles : text = [ input |-> t, once |-> "", twice |-> "",
                                  calls |-> 0 ]
    /\ fold = NoFold
    /\ cache = NoCache
    /\ http = NoHttp
    /\ cursor = 0
    /\ page = 0
    /\ all = << >>
    /\ requests = << >>
    /\ fetchArgs = NoFetch
    /\ since = 0
    /\ now = 0
    /\ users = << >>
    /\ queue = << >>
    /\ yearData = NoDoc
    /\ docs = << >>
    /\ recent = NoRecent
    /\ idx = 0
    /\ cat = 0
    /\ activities = << >>
    /\ pager = NoPager

\* sanitizeTitle(title)
SanitizeTitle ==
    /\ pc = "title"
    /\ text.calls = 0
    /\ text' = [ text EXCEPT !.once = sanitizeTitle(text.input), !.calls = 1 ]
    /\ UNCHANGED << pagerVars, foldVars, cacheVars, clock, upstream, pc, buildVars,
                    fetchVars >>

\* sanitizeTitle(sanitizeTitle(title))
SanitizeAgain ==
    /\ pc = "title"
    /\ text.calls = 1
    /\ text' = [ text EXCEPT !.twice = sanitizeTitle(text.once), !.calls = 2 ]
    /\ UNCHANGED << pagerVars, foldVars, cacheVars, clock, upstream, pc, buildVars,
                    fetchVars >>

NextTitle ==
    \/ SanitizeTitle
    \/ SanitizeAgain

SpecTitle == InitTitle /\ [][NextTitle]_vars

(***************************************************************************)
(* The freshness controller.  Its code (the read API's route) is not among *)
(* the sources: it is modelled from the specification's section 4.5 and    *)
(* the README's caching model.                                             *)
(***************************************************************************)
\* mutant: an artifact whose age is the TTL still counts as fresh
FreshnessTtlInclusive(hasRecord, age, ttl, ceiling) ==
    IF ~hasRecord THEN "expired"
    ELSE IF age <= ttl THEN "fresh"
    ELSE IF age < ceiling THEN "stale"
    ELSE "expired"

\* the class of a cached artifact of the given age on a read
Freshness(hasRecord, age, ttl, ceiling) ==
    IF ~hasRecord THEN "expired"
    ELSE IF age < ttl THEN "fresh"
    ELSE IF age < ceiling THEN "stale"
    ELSE "expired"

\* no response has been sent, no rebuild has ended
NoResponse == [ kind |-> "none", mode |-> "none", class |-> "none",
                docBuiltAt |-> NoDate, at |-> NoDate, started |-> 0 ]

NoOutcome == [ path |-> "none", ok |-> TRUE, at |-> NoDate ]

\* mutant: a stale read starts a rebuild whether one is in flight or not
StartsRebuildAlways(class, inflight) == class = "stale"

\* a read starts a background rebuild: the artifact is stale and the
\* period's in-flight flag is not set
StartsRebuild(class, inflight) == class = "stale" /\ ~inflight

\* mutant: an expired artifact is served, and rebuilt in the background
DefaultReadServesExpired(c) ==
    LET cls == Freshness(c.hasRecord, c.now - c.builtAt, c.ttl, c.ceiling)
        start == c.hasRecord /\ ~c.inflight /\ cls # "fresh"
    IN  [ c EXCEPT
            !.class = cls,
            !.readAt = c.now,
            !.readAge = c.now - c.builtAt,
            !.readHad = c.hasRecord,
            !.nread = @ + 1,
            !.inflight = IF start THEN TRUE ELSE @,
            !.bg = IF start THEN @ + 1 ELSE @,
            !.pending = IF ~c.hasRecord THEN Append(@, "default") ELSE @,
            !.last = IF ~c.hasRecord THEN @
                     ELSE [ kind |-> "doc", mode |-> "default", class |-> cls,
                            docBuiltAt |-> c.builtAt, at |-> c.now,
                            started |-> IF start THEN 1 ELSE 0 ] ]

\* the controller after a default read has arrived: the artifact is
\* classified; fresh: served; stale: served, and a background rebuild
\* started unless one is in flight; expired: the read waits for its own
\* synchronous rebuild
DefaultRead(c) ==
    LET cls == Freshness(c.hasRecord, c.now - c.builtAt, c.ttl, c.ceiling)
        start == StartsRebuild(cls, c.inflight)
    IN  [ c EXCEPT
            !.class = cls,
            !.readAt = c.now,
            !.readAge = c.now - c.builtAt,
            !.readHad = c.hasRecord,
            !.nread = @ + 1,
            !.inflight = IF start THEN TRUE ELSE @,
            !.bg = IF start THEN @ + 1 ELSE @,
            !.pending = IF cls = "expired" THEN Append(@, "default") ELSE @,
            !.last = IF cls = "expired" THEN @
                     ELSE [ kind |-> "doc", mode |-> "default", class |-> cls,
                            docBuiltAt |-> c.builtAt, at |-> c.now,
                            started |-> IF start THEN 1 ELSE 0 ] ]

\* the controller after a forced-rebuild read has arrived: the state machine
\* is bypassed, the read waits for its synchronous rebuild
ForcedRead(c) ==
    [ c EXCEPT !.nread = @ + 1, !.pending = Append(@, "forced") ]

\* the background rebuild completes: the CacheRecord is overwritten, the
\* in-flight flag cleared
OnBackgroundDone(c) ==
    [ c EXCEPT !.hasRecord = TRUE, !.builtAt = c.now,
               !.inflight = FALSE, !.bg = @ - 1,
               !.ended = @ + 1,
               !.outcome = [ path |-> "background", ok |-> TRUE, at |-> c.now ] ]

\* the background rebuild fails: the error is logged and swallowed
OnBackgroundError(c) ==
    [ c EXCEPT !.inflight = FALSE, !.bg = @ - 1,
               !.ended = @ + 1,
               !.logged = @ + 1,
               !.outcome = [ path |-> "background", ok |-> FALSE, at |-> c.now ] ]

\* the synchronous rebuild of the oldest waiting read completes: the record
\* is persisted, and then the read is answered with it
OnSyncDone(c) ==
    [ c EXCEPT !.hasRecord = TRUE, !.builtAt = c.now,
               !.pending = Tail(@),
               !.ended = @ + 1,
               !.outcome = [ path |-> "sync", ok |-> TRUE, at |-> c.now ],
               !.last = [ kind |-> "doc", mode |-> Head(c.pending),
                          class |-> IF Head(c.pending) = "default"
                                    THEN "expired" ELSE "none",
                          docBuiltAt |-> c.now, at |-> c.now,
                          started |-> 0 ] ]

\* mutant: a failed synchronous rebuild falls back to the cached document
OnSyncErrorServesCached(c) ==
    [ c EXCEPT !.pending = Tail(@),
               !.ended = @ + 1,
               !.outcome = [ path |-> "sync", ok |-> FALSE, at |-> c.now ],
               !.last = [ kind |-> IF c.hasRecord THEN "doc" ELSE "error",
                          mode |-> Head(c.pending),
                          class |-> IF Head(c.pending) = "default"
                                    THEN "expired" ELSE "none",
                          docBuiltAt |-> IF c.hasRecord THEN c.builtAt
                                         ELSE NoDate,
                          at |-> c.now, started |-> 0 ] ]

\* the synchronous rebuild of the oldest waiting read fails: the error goes
\* to the caller as a server error
OnSyncError(c) ==
    [ c EXCEPT !.pending = Tail(@),
               !.ended = @ + 1,
               !.outcome = [ path |-> "sync", ok |-> FALSE, at |-> c.now ],
               !.last = [ kind |-> "error", mode |-> Head(c.pending),
                          class |-> IF Head(c.pending) = "default"
                                    THEN "expired" ELSE "none",
                          docBuiltAt |-> NoDate, at |-> c.now,
                          started |-> 0 ] ]

InitCache ==
    /\ clock = StartClock
    /\ upstream = << >>
    /\ pc = "serving"
    /\ \E t \in 0..MaxTtl, c \in 1..MaxCeiling, rec \in BOOLEAN :
          /\ t <= c
          /\ cache = [ state |-> "on", now |-> 0, ttl |-> t, ceiling |-> c,
                       hasRecord |-> rec, builtAt |-> 0,
                       class |-> "none", readAt |-> NoDate,
                       readAge |-> 0, readHad |-> rec,
                       inflight |-> FALSE, bg |-> 0, pending |-> << >>,
                       nread |-> 0, ended |-> 0, logged |-> 0,
                       last |-> NoResponse, outcome |-> NoOutcome ]
    /\ fold = NoFold
    /\ text = NoText
    /\ http = NoHttp
    /\ cursor = 0
    /\ page = 0
    /\ all = << >>
    /\ requests = << >>
    /\ fetchArgs = NoFetch
    /\ since = 0
    /\ now = 0
    /\ users = << >>
    /\ queue = << >>
    /\ yearData = NoDoc
    /\ docs = << >>
    /\ recent = NoRecent
    /\ idx = 0
    /\ cat = 0
    /\ activities = << >>
    /\ pager = NoPager

\* time passes between reads and while rebuilds run
CacheTick ==
    /\ pc = "serving"
    /\ cache.now <= MaxCeiling
    /\ cache' = [ cache EXCEPT !.now = @ + 1 ]
    /\ UNCHANGED << pagerVars, foldVars, textVars, clock, upstream, pc, buildVars,
                    fetchVars >>

\* a default read arrives
CacheRead ==
    /\ pc = "serving"
    /\ cache.nread < MaxReads
    /\ cache' = DefaultRead(cache)
    /\ UNCHANGED << pagerVars, foldVars, textVars, clock, upstream, pc, buildVars,
                    fetchVars >>

\* a forced-rebuild read arrives
CacheForcedRead ==
    /\ pc = "serving"
    /\ cache.nread < MaxReads
    /\ cache' = ForcedRead(cache)
    /\ UNCHANGED << pagerVars, foldVars, textVars, clock, upstream, pc, buildVars,
                    fetchVars >>

BackgroundDone ==
    /\ pc = "serving"
    /\ cache.bg > 0
    /\ cache' = OnBackgroundDone(cache)
    /\ UNCHANGED << pagerVars, foldVars, textVars, clock, upstream, pc, buildVars,
                    fetchVars >>

BackgroundError ==
    /\ pc = "serving"
    /\ cache.bg > 0
    /\ cache' = OnBackgroundError(cache)
    /\ UNCHANGED << pagerVars, foldVars, textVars, clock, upstream, pc, buildVars,
                    fetchVars >>

SyncDone ==
    /\ pc = "serving"
    /\ cache.pending # << >>
    /\ cache' = OnSyncDone(cache)
    /\ UNCHANGED << pagerVars, foldVars, textVars, clock, upstream, pc, buildVars,
                    fetchVars >>

SyncError ==
    /\ pc = "serving"
    /\ cache.pending # << >>
    /\ cache' = OnSyncError(cache)
    /\ UNCHANGED << pagerVars, foldVars, textVars, clock, upstream, pc, buildVars,
                    fetchVars >>

NextCache ==
    \/ CacheTick
    \/ CacheRead
    \/ CacheForcedRead
    \/ BackgroundDone
    \/ BackgroundError
    \/ SyncDone
    \/ SyncError

SpecCache == InitCache /\ [][NextCache]_vars

(***************************************************************************)
(* searchByDateChunks over sub-ranges of several pages.                    *)
(***************************************************************************)
\* the numbers of matching items of a sub-range the model draws from
PageCounts == { 0, 1, PerPage - 1, PerPage, PerPage + 1, 2 * PerPage }

\* the days of the range searched: two sub-ranges of StepDays days
PagedDays == 2 * StepDays

\* nA pull requests created in the first sub-range, then nB created in the
\* second
PagedUniverse(nA, nB) ==
    [ i \in 1..(nA + nB) |->
        WithId([ user |-> Bob, kind |-> "pr", merged |-> FALSE,
                 created_at |-> IF i <= nA
                                THEN daysAgo(StartClock, StepDays + 15)
                                ELSE StartClock - 1,
                 closed_at |-> NoDate, title |-> TitleOf("pr", FALSE) ], i) ]

\* res.items is there
HasItems(body) == "items" \in DOMAIN body

\* res.items ?? []
ItemsOf(body) == IF HasItems(body) THEN body.items ELSE << >>

\* mutant: only an empty or missing items list ends the pages of a sub-range
LastPageWhenEmpty(body) == ~HasItems(body) \/ Len(body.items) = 0

\* if (!res.items || res.items.length < 100) break
LastPage(body) == ~HasItems(body) \/ Len(body.items) < PerPage

InitPaging ==
    /\ clock = StartClock
    /\ \E nA \in PageCounts, nB \in PageCounts :
          upstream = PagedUniverse(nA, nB)
    /\ pc = "paging"
    /\ fetchArgs = [ query |-> "is:pr",
                     start |-> daysAgo(StartClock, PagedDays),
                     end |-> StartClock,
                     stepDays |-> StepDays ]
    /\ cursor = fetchArgs.start
    /\ page = 1
    /\ all = << >>
    /\ requests = << >>
    /\ http = NoHttp
    /\ fold = NoFold
    /\ cache = NoCache
    /\ text = NoText
    /\ since = 0
    /\ now = 0
    /\ users = << >>
    /\ queue = << >>
    /\ yearData = NoDoc
    /\ docs = << >>
    /\ recent = NoRecent
    /\ idx = 0
    /\ cat = 0
    /\ activities = << >>
    /\ pager = NoPager

\* the body of the inner loop for a response with the given body
PageLoop(body) ==
    /\ requests' = Append(requests,
                      [ query |-> fetchArgs.query, from |-> iso(cursor),
                        to |-> iso(ChunkEnd(cursor, fetchArgs.end,
                                            fetchArgs.stepDays)),
                        page |-> page ])
    /\ http' = ghSearch(http, [ status |-> 200, body |-> body ])
    /\ all' = all \o ItemsOf(body)
    /\ IF LastPage(body)
       THEN /\ cursor' = ChunkEnd(cursor, fetchArgs.end, fetchArgs.stepDays)
            /\ page' = 1
       ELSE /\ cursor' = cursor
            /\ page' = page + 1

\* one ghSearch call answered with the page asked for
PageRequest ==
    /\ pc = "paging"
    /\ cursor < fetchArgs.end
    /\ PageLoop([ items |->
                    SearchPage(upstream, fetchArgs.query, iso(cursor),
                               iso(ChunkEnd(cursor, fetchArgs.end,
                                            fetchArgs.stepDays)), page) ])
    /\ UNCHANGED << pagerVars, foldVars, cacheVars, textVars, clock, upstream, pc,
                    fetchArgs, buildVars >>

\* one ghSearch call answered with a body that has no items list
PageWithoutItems ==
    /\ pc = "paging"
    /\ cursor < fetchArgs.end
    /\ PageLoop([ message |-> "no items" ])
    /\ UNCHANGED << pagerVars, foldVars, cacheVars, textVars, clock, upstream, pc,
                    fetchArgs, buildVars >>

\* while (cursor < end) ends: return all
PageReturn ==
    /\ pc = "paging"
    /\ ~(cursor < fetchArgs.end)
    /\ pc' = "paged"
    /\ UNCHANGED << pagerVars, foldVars, cacheVars, textVars, clock, upstream,
                    fetchVars, buildVars >>

NextPaging ==
    \/ PageRequest
    \/ PageWithoutItems
    \/ PageReturn

SpecPaging == InitPaging /\ [][NextPaging]_vars


(***************************************************************************)
(* PaginatedActivitySection: the page shown and the window of page buttons.*)
(***************************************************************************)
\* itemsPerPage = 9
ItemsPerPage == 9

\* const windowSize = 3
WindowSize == 3

\* Math.ceil(group.activities.length / itemsPerPage)
TotalPages(length, itemsPerPage) ==
    (length + itemsPerPage - 1) \div itemsPerPage

Max(a, b) == IF a > b THEN a ELSE b

\* mutant: the next page is shown and the window stays
goToNextKeepsWindow(p) ==
    LET nextPage == Min(p.totalPages, p.currentPage + 1)
    IN  [ p EXCEPT !.currentPage = nextPage,
                   !.last = << "goToNext" >> ]

\* the state after goToNext()
goToNext(p) ==
    LET nextPage == Min(p.totalPages, p.currentPage + 1)
    IN  [ p EXCEPT !.currentPage = nextPage,
                   !.windowStart = IF nextPage > @ + WindowSize - 1
                                   THEN @ + 1 ELSE @,
                   !.last = << "goToNext" >> ]

\* the state after goToPrevious()
goToPrevious(p) ==
    LET nextPage == Max(1, p.currentPage - 1)
    IN  [ p EXCEPT !.currentPage = nextPage,
                   !.windowStart = IF nextPage < @ THEN @ - 1 ELSE @,
                   !.last = << "goToPrevious" >> ]

\* the state after goToPage(n)
goToPage(p, n) ==
    [ p EXCEPT !.currentPage = n,
               !.windowStart = IF n < @ THEN n
                               ELSE IF n > @ + WindowSize - 1
                                    THEN n - WindowSize + 1
                                    ELSE @,
               !.last = << "goToPage", n >> ]

\* getPageNumbers(): the page numbers of the buttons of the window
getPageNumbers(p) ==
    p.windowStart .. Min(p.windowStart + WindowSize - 1, p.totalPages)

\* the button of the last page is shown behind the window
LastPageButton(p) == ~(p.windowStart + WindowSize - 1 >= p.totalPages)

\* the section is mounted on its first page
InitPager ==
    /\ clock = StartClock
    /\ upstream = << >>
    /\ pc = "shown"
    /\ \E n \in 0..MaxActivities :
          pager = [ state |-> "on", length |-> n,
                    totalPages |-> TotalPages(n, ItemsPerPage),
                    currentPage |-> 1, windowStart |-> 1,
                    last |-> << "mount" >> ]
    /\ fold = NoFold
    /\ cache = NoCache
    /\ text = NoText
    /\ http = NoHttp
    /\ cursor = 0
    /\ page = 0
    /\ all = << >>
    /\ requests = << >>
    /\ fetchArgs = NoFetch
    /\ since = 0
    /\ now = 0
    /\ users = << >>
    /\ queue = << >>
    /\ yearData = NoDoc
    /\ docs = << >>
    /\ recent = NoRecent
    /\ idx = 0
    /\ cat = 0
    /\ activities = << >>

\* a click on Next
ClickNext ==
    /\ pc = "shown"
    /\ pager.totalPages > 1
    /\ ~(pager.currentPage = pager.totalPages)
    /\ pager' = goToNext(pager)
    /\ UNCHANGED << foldVars, cacheVars, textVars, clock, upstream, pc,
                    buildVars, fetchVars >>

\* a click on Previous
ClickPrevious ==
    /\ pc = "shown"
    /\ pager.totalPages > 1
    /\ ~(pager.currentPage = 1)
    /\ pager' = goToPrevious(pager)
    /\ UNCHANGED << foldVars, cacheVars, textVars, clock, upstream, pc,
                    buildVars, fetchVars >>

\* a click on a page button of the window
ClickPage ==
    /\ pc = "shown"
    /\ pager.totalPages > 1
    /\ \E n \in getPageNumbers(pager) : pager' = goToPage(pager, n)
    /\ UNCHANGED << foldVars, cacheVars, textVars, clock, upstream, pc,
                    buildVars, fetchVars >>

\* a click on the button of the last page
ClickLastPage ==
    /\ pc = "shown"
    /\ pager.totalPages > 1
    /\ LastPageButton(pager)
    /\ pager' = goToPage(pager, pager.totalPages)
    /\ UNCHANGED << foldVars, cacheVars, textVars, clock, upstream, pc,
                    buildVars, fetchVars >>

NextPager ==
    \/ ClickNext
    \/ ClickPrevious
    \/ ClickPage
    \/ ClickLastPage

SpecPager == InitPager /\ [][NextPager]_vars


(***************************************************************************)
(* Properties.                                                             *)
(***************************************************************************)
\* sum of the points of the buckets of an activity_breakdown
BreakdownPoints(b) == SumSet([ t \in DOMAIN b |-> b[t].points ], DOMAIN b)

\* sum of the points of a list of events or of daily buckets
PointsOf(s) == SumSeq([ i \in 1..Len(s) |-> s[i].points ])

\* every entry held by a script or written to a period document
AllEntries ==
    Range(users) \cup Range(yearData.entries)
        \cup UNION { Range(docs[p].entries) : p \in DOMAIN docs }

\* generateYear has written year.json and is deriving, or has finished
YearBuilt == yearData # NoDoc

\* the derived documents written so far by derivePeriod
DerivedWritten ==
    IF ~YearBuilt THEN {}
    ELSE { k \in 1..Len(DerivedPeriods) :
             /\ DerivedPeriods[k].period \in DOMAIN docs
             /\ (pc = "derive" => k < idx) }

DerivedDoc(k) == docs[DerivedPeriods[k].period]

\* the cutoff instant derivePeriod used for derived document k
CutoffOf(k) ==
    DerivedDoc(k).updatedAt - DerivedPeriods[k].days * TicksPerDay

\* the events of a canonical entry at or after a cutoff, in log order
InWindow(entry, cutoff) ==
    LET keep(a) == a.occured_at >= cutoff
    IN  SelectSeq(entry.raw_activities, keep)

\* the canonical entry of a username
Canonical(name) ==
    CHOOSE c \in Range(yearData.entries) : c.username = name

(* C1: after every addActivity step, and in every entry of every document  *)
(* written, total_points is the sum of the points of the buckets of        *)
(* activity_breakdown.                                                     *)
C1_TotalIsBreakdownSum ==
    \A e \in AllEntries :
        e.total_points = BreakdownPoints(e.activity_breakdown)

\* a derived document holds an entry with two buckets
C1_Witness ==
    /\ pc = "done"
    /\ \E k \in DerivedWritten : \E e \in Range(DerivedDoc(k).entries) :
          /\ Cardinality(DOMAIN e.activity_breakdown) >= 2
          /\ e.total_points >= PR_OPENED + PR_MERGED

\* the step of an entry from cur to nxt logs one event that accounts for it
LogsItsChange(cur, nxt) ==
    IF nxt.raw_activities = cur.raw_activities
    THEN /\ nxt.total_points = cur.total_points
         /\ nxt.activity_breakdown = cur.activity_breakdown
         /\ nxt.daily_activity = cur.daily_activity
    ELSE /\ Len(nxt.raw_activities) = Len(cur.raw_activities) + 1
         /\ SubSeq(nxt.raw_activities, 1, Len(cur.raw_activities))
               = cur.raw_activities
         /\ LET ev == nxt.raw_activities[Len(nxt.raw_activities)]
            IN  /\ nxt.total_points = cur.total_points + ev.points
                /\ BreakdownPoints(nxt.activity_breakdown)
                     = BreakdownPoints(cur.activity_breakdown) + ev.points
                /\ ev.type \in DOMAIN nxt.activity_breakdown
                /\ PointsOf(nxt.daily_activity)
                     = PointsOf(cur.daily_activity) + ev.points
                /\ \E d \in Range(nxt.daily_activity) :
                       d.date = DayOf(ev.occured_at)

C2_Step ==
    /\ \A e \in Range(users') \cup Range(yearData'.entries) :
          "raw_activities" \in DOMAIN e =>
              e.total_points = PointsOf(e.raw_activities)
    /\ (pc \in { "fetch", "fold", "write" }) =>
          /\ Len(users') >= Len(users)
          /\ \A i \in 1..Len(users) :
                /\ users'[i].username = users[i].username
                /\ LogsItsChange(users[i], users'[i])
          /\ \A i \in (Len(users) + 1)..Len(users') :
                LogsItsChange(NewUserEntry([ login |-> users'[i].username,
                                             name |-> users'[i].name,
                                             avatar_url |-> users'[i].avatar_url ]),
                              users'[i])

(* C2: in the canonical aggregate total_points is always the sum of the    *)
(* points of raw_activities; a step changes total_points,                  *)
(* activity_breakdown or daily_activity only by appending the matching     *)
(* event to raw_activities, which is only ever appended to.                *)
C2_LogIsSourceOfTruth == [][C2_Step]_vars

\* an entry of the canonical aggregate has logged two events
C2_Witness ==
    /\ pc = "fold"
    /\ \E u \in Range(users) :
          /\ Len(u.raw_activities) >= 2
          /\ u.total_points = PointsOf(u.raw_activities)

\* the logins of the actors the classifier excludes: no login, an account
\* type other than "User", a login ending in "[bot]"
ExcludedLogins ==
    { u.login : u \in { a \in Actors :
                          \/ a.login = NULL
                          \/ (a.type # NULL /\ a.type # "User")
                          \/ EndsWith(a.login, "[bot]") } }

(* C3: no event of an actor without login, of an account type other than   *)
(* "User" or with a login ending in "[bot]" creates an entry or shows in a *)
(* period document or in a recent-activities group.                        *)
C3_NoExcludedActor ==
    /\ \A e \in AllEntries : e.username \notin ExcludedLogins
    /\ \A e \in AllEntries :
          "raw_activities" \in DOMAIN e =>
              \A a \in Range(e.raw_activities) :
                  \E it \in Range(upstream) :
                      /\ it.html_url = a.link
                      /\ it.user.login = e.username
                      /\ it.user.login \notin ExcludedLogins
    /\ \A k \in DerivedWritten : \A e \in Range(DerivedDoc(k).entries) :
          \A a \in Range(e.activities) : a.contributor \notin ExcludedLogins
    /\ \A g \in Range(recent.groups) : \A x \in Range(g.items) :
          x.username \notin ExcludedLogins
    /\ \A a \in Range(activities) : a.contributor \notin ExcludedLogins

\* a build that met an excluded actor's item has written its documents
C3_Witness ==
    /\ pc = "done"
    /\ YearBuilt
    /\ \E it \in Range(upstream) : it.user.login \in ExcludedLogins
    /\ \E it \in Range(upstream) : it.user = Org
    /\ yearData.entries # << >>
    /\ recent.groups # << >>


\* the usernames of a list of entries
Usernames(entries) == { e.username : e \in Range(entries) }

\* the event a derived activity lists
EventOf(a) ==
    [ type |-> a.type, occured_at |-> a.occured_at, title |-> a.title,
      link |-> a.link, points |-> a.points ]

(* C4: a derived document holds a contributor exactly when the             *)
(* contributor's canonical log has an event at or after now - cutoff, and  *)
(* lists for the contributor exactly those events.                         *)
C4_DerivedMembership ==
    \A k \in DerivedWritten :
        LET doc == DerivedDoc(k)
            cutoff == CutoffOf(k)
            active == { c \in Range(yearData.entries) :
                          \E a \in Range(c.raw_activities) :
                              a.occured_at >= cutoff }
        IN  /\ Usernames(doc.entries) = { c.username : c \in active }
            /\ Len(doc.entries) = Cardinality(active)
            /\ \A e \in Range(doc.entries) :
                  [ i \in 1..Len(e.activities) |-> EventOf(e.activities[i]) ]
                      = InWindow(Canonical(e.username), cutoff)

\* the week document lists an event made at the cutoff instant, and leaves
\* out a contributor whose only event is 8 days old
C4_Witness ==
    /\ 1 \in DerivedWritten
    /\ \E e \in Range(DerivedDoc(1).entries) :
          \E a \in Range(e.activities) : a.occured_at = CutoffOf(1)
    /\ \E c \in Range(yearData.entries) :
          /\ c.username \notin Usernames(DerivedDoc(1).entries)
          /\ \A a \in Range(c.raw_activities) :
                a.occured_at = DerivedDoc(1).updatedAt - 8 * TicksPerDay

RECURSIVE AggregateFrom(_, _, _, _)
\* the Aggregator's fold of the events from the i-th on, for one contributor
AggregateFrom(map, who, events, i) ==
    IF i > Len(events) THEN map
    ELSE AggregateFrom(
             FoldActivity(map,
                 [ user |-> [ login |-> who.username, name |-> who.name,
                              avatar_url |-> who.avatar_url ],
                   title |-> events[i].title,
                   html_url |-> events[i].link ],
                 events[i].type, events[i].occured_at, events[i].points),
             who, events, i + 1)

(* C5: the total_points, activity_breakdown and daily_activity of a        *)
(* derived entry are what ensureUser and addActivity produce from the      *)
(* contributor's in-window events alone, folded in log order.              *)
C5_DerivedIsFoldOfWindow ==
    \A k \in DerivedWritten : \A e \in Range(DerivedDoc(k).entries) :
        LET c == Canonical(e.username)
            agg == AggregateFrom(<< >>, c, InWindow(c, CutoffOf(k)), 1)
        IN  /\ Len(agg) = 1
            /\ e.total_points = agg[1].total_points
            /\ e.activity_breakdown = agg[1].activity_breakdown
            /\ e.daily_activity = agg[1].daily_activity

\* a derived entry leaves out events its canonical entry has counted
C5_Witness ==
    \E k \in DerivedWritten : \E e \in Range(DerivedDoc(k).entries) :
        /\ Len(e.activities) < Len(Canonical(e.username).raw_activities)
        /\ e.total_points < Canonical(e.username).total_points

\* a step of the derivers keeps the yearData object and the entries of the Map
C7_Step ==
    pc \in { "derive", "recent" } =>
        (yearData' = yearData /\ users' = users)

(* C7: derivePeriod and generateRecentActivities leave the canonical       *)
(* aggregate as it was: its entries, their fields and their order.         *)
C7_CanonicalUnchanged == [][C7_Step]_vars

\* all derivations have run over a canonical aggregate that they cut
C7_Witness ==
    /\ pc = "done"
    /\ YearBuilt
    /\ recent.updatedAt # NoDate
    /\ \E c \in Range(yearData.entries) :
          /\ Len(c.raw_activities) >= 2
          /\ c.username \notin Usernames(DerivedDoc(1).entries)

(* C8: the entries of every period document written have positive         *)
(* total_points and are in non-increasing order of total_points.           *)
C8_RankedEntries ==
    \A p \in DOMAIN docs :
        LET entries == docs[p].entries
        IN  /\ \A i \in 1..Len(entries) : entries[i].total_points > 0
            /\ \A i \in 1..(Len(entries) - 1) :
                  entries[i].total_points >= entries[i + 1].total_points

\* a document ranks first the contributor the build met last
C8_Witness ==
    /\ pc = "done"
    /\ YearBuilt
    /\ Len(users) = 2
    /\ users[1].total_points < users[2].total_points
    /\ docs["year"].entries[1].username = users[2].username
    /\ \E k \in DerivedWritten : Len(DerivedDoc(k).entries) = 2

\* the sub-ranges searchByDateChunks has queried: the first page of each
SubRanges ==
    LET first(r) == r.page = 1
    IN  SelectSeq(requests, first)

(* C9: the sub-ranges queried cover [start, end) without gap and without   *)
(* overlap: each starts where the one before ends, no calendar date is     *)
(* asked for by two of them, and the last ends at end.                     *)
C9_SubRangesPartition ==
    pc = "returned" =>
        LET subs == SubRanges
            n == Len(subs)
        IN  /\ n >= 1
            /\ subs[1].from = iso(fetchArgs.start)
            /\ \A i \in 1..(n - 1) : subs[i + 1].from = subs[i].to
            /\ subs[n].to = iso(fetchArgs.end)
            /\ iso(fetchArgs.start)..iso(fetchArgs.end - 1)
                  \subseteq UNION { DatesCovered(subs[i]) : i \in 1..n }
            /\ \A i, j \in 1..n :
                  i < j => DatesCovered(subs[i]) \cap DatesCovered(subs[j]) = {}

(* C10: the list searchByDateChunks returns for a category, which the      *)
(* build then folds item by item, holds no upstream item twice.            *)
C10_NoItemTwice ==
    \A i, j \in 1..Len(queue) : i < j => queue[i].id # queue[j].id

\* the requests sent for the category being fetched
CategoryRequests ==
    LET mine(r) == r.query = Categories[cat].query
    IN  SelectSeq(requests, mine)

\* the last HTTP call made
LastCall == http.calls[Len(http.calls)]

\* a step of generateYear in which a request of searchByDateChunks fails, and
\* the steps after it
C11_Step ==
    /\ (pc = "fetch" /\ http'.error # http.error) =>
          /\ pc' = "failed"
          /\ LET call == http'.calls[Len(http'.calls)]
             IN  /\ ~(call.status \in 200..299)
                 /\ http'.error = << "GitHub API", call.status, call.body >>
                 /\ Len(http'.calls) = Len(requests')
          /\ queue' = << >>
          /\ users' = users
          /\ \A u \in Range(users') : \A a \in Range(u.raw_activities) :
                a.type # Categories[cat].type
    /\ pc = "failed" =>
          /\ requests' = requests
          /\ http' = http
          /\ users' = users
          /\ queue' = queue

(* C11: when a request of searchByDateChunks gets a non-success status,    *)
(* the fetch of the category fails with an error that carries the status   *)
(* and the response body, no request is sent after the failed one, and no  *)
(* item fetched for the category is returned to the build or folded into   *)
(* an entry.                                                               *)
C11_FailedFetchIsDiscarded == [][C11_Step]_vars

\* a fetch has failed after an earlier request of the category had returned
\* an item
C11_Witness ==
    /\ pc = "failed"
    /\ http.error # NULL
    /\ http.error[1] = "GitHub API"
    /\ LET mine == CategoryRequests
       IN  /\ Len(mine) >= 2
           /\ \E i \in 1..(Len(mine) - 1) :
                 SearchPage(upstream, mine[i].query, mine[i].from,
                            mine[i].to, mine[i].page) # << >>

(* C12: when an upstream request of a build fails, no period document and  *)
(* no recent-activities document has been written: the files are as they   *)
(* were before the run.                                                    *)
C12_FailedBuildWritesNothing ==
    pc = "failed" => (docs = << >> /\ recent = NoRecent)

(* C13: every HTTP call of ghSearch is followed by the fixed delay before  *)
(* ghSearch returns or throws, whatever the status of the response, and    *)
(* two consecutive requests are sent at least the fixed delay apart.       *)
C13_DelayAfterEveryCall ==
    /\ \A i \in 1..Len(http.calls) :
          http.calls[i].by = "ghSearch" =>
              http.calls[i].endedAt - http.calls[i].sentAt >= ThrottleMs
    /\ \A i \in 1..(Len(http.calls) - 1) :
          http.calls[i + 1].sentAt - http.calls[i].sentAt >= ThrottleMs

\* the events a document lists for an entry, as << instant, points >> pairs:
\* the entry's log, the entry's derived activities, or (documents of
\* scripts/generateLeaderboard.ts) the contributor's items of the document's
\* activities list
EventsOfEntry(e, doc) ==
    IF "raw_activities" \in DOMAIN e
    THEN [ i \in 1..Len(e.raw_activities) |->
             << e.raw_activities[i].occured_at, e.raw_activities[i].points >> ]
    ELSE IF "activities" \in DOMAIN e
    THEN [ i \in 1..Len(e.activities) |->
             << e.activities[i].occured_at, e.activities[i].points >> ]
    ELSE LET mine(a) == a.contributor = e.username
             acts == SelectSeq(doc.activities, mine)
         IN  [ i \in 1..Len(acts) |-> << acts[i].date, acts[i].points >> ]

\* daily holds one bucket per date of events, with the count and the point
\* sum of the events of that date
OneBucketPerDate(daily, events) ==
    /\ \A i, j \in 1..Len(daily) : i < j => daily[i].date # daily[j].date
    /\ { daily[i].date : i \in 1..Len(daily) }
          = { DayOf(events[k][1]) : k \in 1..Len(events) }
    /\ \A i \in 1..Len(daily) :
          LET onDay(ev) == DayOf(ev[1]) = daily[i].date
              evs == SelectSeq(events, onDay)
          IN  /\ daily[i].count = Len(evs)
              /\ daily[i].points = SumSeq([ k \in 1..Len(evs) |-> evs[k][2] ])

(* C14: in every entry of the canonical aggregate and of every period      *)
(* document, daily_activity has at most one bucket per calendar date, and  *)
(* the bucket's count and points are the number and the point sum of the   *)
(* contributor's events of that date.                                      *)
C14_OneDailyBucketPerDate ==
    /\ \A e \in Range(yearData.entries) :
          OneBucketPerDate(e.daily_activity, EventsOfEntry(e, yearData))
    /\ \A p \in DOMAIN docs : \A e \in Range(docs[p].entries) :
          OneBucketPerDate(e.daily_activity, EventsOfEntry(e, docs[p]))

\* the dates of a daily_activity list grow strictly
OrderedByDate(daily) ==
    \A i \in 1..(Len(daily) - 1) : daily[i].date < daily[i + 1].date

(* C15: in every entry of the documents generateYear and derivePeriod      *)
(* write, daily_activity is ordered by date: each bucket's date is before  *)
(* the date of the bucket after it.                                        *)
C15_DailyOrderedByDate ==
    YearBuilt =>
        /\ \A e \in Range(yearData.entries) : OrderedByDate(e.daily_activity)
        /\ \A p \in DOMAIN docs : \A e \in Range(docs[p].entries) :
              OrderedByDate(e.daily_activity)

\* the entry of a login in a Map
EntryOf(map, login) == map[UserIndex(map, login)]

\* two logs hold the same events, each as often
SameEvents(la, lb) ==
    /\ Len(la) = Len(lb)
    /\ \A x \in Range(la) \cup Range(lb) :
          Cardinality({ i \in 1..Len(la) : la[i] = x })
             = Cardinality({ i \in 1..Len(lb) : lb[i] = x })

\* two entries have the same totals, buckets and per-date counts and points
SameAggregates(a, b) ==
    /\ a.total_points = b.total_points
    /\ a.activity_breakdown = b.activity_breakdown
    /\ Range(a.daily_activity) = Range(b.daily_activity)
    /\ Len(a.daily_activity) = Len(b.daily_activity)

\* two entries differ in nothing but the order of raw_activities
SameButLogOrder(a, b) ==
    /\ [ a EXCEPT !.raw_activities = << >> ] = [ b EXCEPT !.raw_activities = << >> ]
    /\ SameEvents(a.raw_activities, b.raw_activities)

(* C16: two orderings of one multiset of classified events give every      *)
(* contributor the same total_points, activity_breakdown and per-date      *)
(* counts and points, and the same sorted entries list; the entries differ *)
(* in nothing but the order of raw_activities.                             *)
C16_FoldOrderIndependent ==
    pc = "ranked" =>
        /\ Usernames(fold.mapA) = Usernames(fold.mapB)
        /\ \A n \in Usernames(fold.mapA) :
              SameAggregates(EntryOf(fold.mapA, n), EntryOf(fold.mapB, n))
        /\ Len(fold.entriesA) = Len(fold.entriesB)
        /\ \A i \in 1..Len(fold.entriesA) :
              SameButLogOrder(fold.entriesA[i], fold.entriesB[i])

\* GitHub holds exactly: pull request #1 by alice, merged, and issue #2 by
\* an account whose login ends in "[bot]"
ThreeRawEvents ==
    /\ Len(upstream) = 2
    /\ upstream[1].kind = "pr" /\ upstream[1].merged
    /\ upstream[1].user.login = "alice"
    /\ upstream[2].kind = "issue"
    /\ EndsWith(upstream[2].user.login, "[bot]")

(* C17: a build over the three raw events "alice opens PR #1", "PR #1 by   *)
(* alice is merged" and "a [bot] account opens issue #2" writes a year     *)
(* document with exactly one entry, for alice, with total_points 7 and     *)
(* activity_breakdown {PR opened: 1 event, 2 points; PR merged: 1 event,   *)
(* 5 points}.                                                              *)
C17_EndToEnd ==
    (ThreeRawEvents /\ "year" \in DOMAIN docs) =>
        LET entries == docs["year"].entries
        IN  /\ Len(entries) = 1
            /\ entries[1].username = "alice"
            /\ entries[1].total_points = 7
            /\ DOMAIN entries[1].activity_breakdown = { "PR opened", "PR merged" }
            /\ entries[1].activity_breakdown["PR opened"]
                  = [ count |-> 1, points |-> 2 ]
            /\ entries[1].activity_breakdown["PR merged"]
                  = [ count |-> 1, points |-> 5 ]

\* the characters of a string, in order
CharsOf(s) == [ i \in 1..Len(s) |-> SubSeq(s, i, i) ]

\* s with the characters of drop left out and every ":" written " - "
Rewritten(s) ==
    LET keep(c) == c \notin { "[", "]" }
        kept == SelectSeq(CharsOf(s), keep)
    IN  [ i \in 1..Len(kept) |-> IF kept[i] = ":" THEN " - " ELSE kept[i] ]

\* t is s with every run of whitespace made one space and the whitespace at
\* both ends removed: t has no whitespace but single inner spaces, and the
\* words of t are the words of s
Normalised(t) ==
    LET c == CharsOf(t)
    IN  /\ \A i \in 1..Len(c) : IsSpace(c[i]) => c[i] = " "
        /\ \A i \in 1..(Len(c) - 1) : ~(c[i] = " " /\ c[i + 1] = " ")
        /\ Len(c) > 0 => (c[1] # " " /\ c[Len(c)] # " ")

\* the characters of a string that are not whitespace, in order
InkOf(s) ==
    LET ink(c) == ~IsSpace(c)
    IN  SelectSeq(CharsOf(s), ink)

RECURSIVE Flatten(_)
Flatten(ss) == IF ss = << >> THEN "" ELSE Head(ss) \o Flatten(Tail(ss))

(* C18: for a non-empty title sanitizeTitle returns the title without "["  *)
(* and "]", with " - " for every ":", with one space for every run of      *)
(* whitespace and no whitespace at the ends; the result holds no "[", "]"  *)
(* or ":", and sanitizeTitle applied to the result returns the result.     *)
C18_SanitizedTitle ==
    (text.calls >= 1 /\ text.input # "") =>
        /\ text.once # NULL
        /\ Normalised(text.once)
        /\ InkOf(text.once) = InkOf(Flatten(Rewritten(text.input)))
        /\ \A c \in Range(CharsOf(text.once)) : c \notin { "[", "]", ":" }
        /\ text.calls = 2 => text.twice = text.once

\* generateRecentActivities has written recent-activities.json
RecentWritten == recent.updatedAt # NoDate

\* the cutoff instant generateRecentActivities used
RecentCutoff == recent.updatedAt - RecentDays * TicksPerDay

\* the item and the date under which a logged event is listed
ListedAs(e, a) ==
    [ date |-> DayOf(a.occured_at),
      item |-> [ username |-> e.username, name |-> e.name, title |-> a.title,
                 link |-> a.link, avatar_url |-> e.avatar_url,
                 points |-> a.points ] ]

\* the listings of the logged events generateRecentActivities includes, as
\* << entry index, log index >> pairs
IncludedEvents ==
    UNION { { << i, j >> : j \in
                { k \in 1..Len(yearData.entries[i].raw_activities) :
                    DateOfDay(DayOf(yearData.entries[i].raw_activities[k].occured_at))
                       >= RecentCutoff } } :
            i \in 1..Len(yearData.entries) }

ListingOf(ij) ==
    ListedAs(yearData.entries[ij[1]],
             yearData.entries[ij[1]].raw_activities[ij[2]])

(* C19: recent-activities.json has exactly one group per calendar date of  *)
(* an included event, every item is in the group of its event's UTC date,  *)
(* every included event is listed exactly once, and the groups are in      *)
(* strictly descending order of date.                                      *)
C19_RecentGroups ==
    RecentWritten =>
        LET groups == recent.groups
            n == Len(groups)
        IN  /\ { groups[k].date : k \in 1..n }
                  = { ListingOf(ij).date : ij \in IncludedEvents }
            /\ \A k \in 1..(n - 1) : groups[k].date > groups[k + 1].date
            /\ \A k \in 1..n :
                  /\ groups[k].items # << >>
                  /\ \A x \in Range(groups[k].items) :
                        Cardinality({ m \in 1..Len(groups[k].items) :
                                        groups[k].items[m] = x })
                           = Cardinality({ ij \in IncludedEvents :
                                             ListingOf(ij) =
                                                [ date |-> groups[k].date,
                                                  item |-> x ] })
            /\ SumSeq([ k \in 1..n |-> Len(groups[k].items) ])
                  = Cardinality(IncludedEvents)

\* the document has two groups, one of them with two items
C19_Witness ==
    /\ RecentWritten
    /\ Len(recent.groups) >= 2
    /\ \E k \in 1..Len(recent.groups) : Len(recent.groups[k].items) >= 2

(* C20: on a read, with TTL T and stale-ceiling S (T <= S), an artifact of *)
(* age a is fresh iff a < T, stale iff T <= a < S, expired iff a >= S or   *)
(* no record exists; every read gets exactly one of the three classes.     *)
C20_FreshnessClasses ==
    (cache.state = "on" /\ cache.readAt # NoDate) =>
        LET a == cache.readAge
            T == cache.ttl
            S == cache.ceiling
        IN  /\ cache.class \in { "fresh", "stale", "expired" }
            /\ cache.class = "fresh" <=> (cache.readHad /\ a < T)
            /\ cache.class = "stale" <=> (cache.readHad /\ T <= a /\ a < S)
            /\ cache.class = "expired" <=> (~cache.readHad \/ a >= S)

\* a read has met an artifact whose age is exactly the TTL, below the
\* stale-ceiling
C20_Witness ==
    /\ cache.state = "on"
    /\ cache.readAt # NoDate
    /\ cache.readHad
    /\ cache.readAge = cache.ttl
    /\ cache.ttl < cache.ceiling
    /\ cache.class = "stale"

\* the step is a default read that met a stale artifact
StaleReadStep ==
    /\ cache.state = "on"
    /\ cache'.nread = cache.nread + 1
    /\ cache'.pending = cache.pending
    /\ cache'.class = "stale"

\* the step ends a background rebuild, by completion or by failure
BackgroundEndStep ==
    /\ cache.state = "on"
    /\ cache'.ended = cache.ended + 1
    /\ cache'.outcome.path = "background"

\* the step ends a synchronous rebuild, by completion or by failure
SyncEndStep ==
    /\ cache.state = "on"
    /\ cache'.ended = cache.ended + 1
    /\ cache'.outcome.path = "sync"

C21_OneInFlight ==
    cache.state = "on" =>
        /\ cache.bg \in { 0, 1 }
        /\ cache.inflight <=> cache.bg = 1

C21_Step ==
    /\ StaleReadStep =>
          /\ cache'.last.kind = "doc"
          /\ cache'.last.at = cache.now
          /\ cache'.last.docBuiltAt = cache.builtAt
          /\ cache'.last.started = (IF cache.inflight THEN 0 ELSE 1)
          /\ cache'.bg = cache.bg + cache'.last.started
          /\ cache'.bg = 1
          /\ cache'.inflight
    /\ BackgroundEndStep =>
          /\ cache.inflight
          /\ ~cache'.inflight
          /\ cache'.bg = 0

ExpiredReadStep ==
    /\ cache.state = "on"
    /\ cache'.nread = cache.nread + 1
    /\ cache'.pending = Append(cache.pending, "default")

C22_Served ==
    (cache.state = "on" /\ cache.last.kind = "doc"
                        /\ cache.last.mode = "default") =>
        /\ cache.last.docBuiltAt # NoDate
        /\ cache.last.at - cache.last.docBuiltAt < cache.ceiling

C22_Step ==
    /\ ExpiredReadStep =>
          /\ cache'.class = "expired"
          /\ ~cache.hasRecord \/ cache.now - cache.builtAt >= cache.ceiling
          /\ cache'.last = cache.last
    /\ (SyncEndStep /\ cache'.outcome.ok) =>
          /\ cache'.hasRecord
          /\ cache'.builtAt = cache.now
          /\ cache'.last.kind = "doc"
          /\ cache'.last.at = cache.now
          /\ cache'.last.docBuiltAt = cache'.builtAt

(* C22: a default read never returns a document whose age at response     *)
(* time is at or beyond the stale-ceiling; a read of an expired or absent *)
(* record gets no response until its synchronous rebuild has persisted    *)
(* the new record, and is answered with that record.                      *)
C22_NeverBeyondCeiling == [] C22_Served /\ [][C22_Step]_vars

\* a default read met a record aged at or beyond the stale-ceiling and was
\* answered with the record its synchronous rebuild persisted
C22_Witness ==
    /\ cache.state = "on"
    /\ cache.readHad
    /\ cache.readAge >= cache.ceiling
    /\ cache.class = "expired"
    /\ cache.last.kind = "doc"
    /\ cache.last.mode = "default"
    /\ cache.last.class = "expired"
    /\ cache.last.at > cache.readAt
    /\ cache.last.docBuiltAt = cache.last.at

\* the step is a default read answered at once, from the cache
ImmediateReadStep ==
    /\ cache.state = "on"
    /\ cache'.nread = cache.nread + 1
    /\ cache'.pending = cache.pending

C23_Step ==
    /\ (BackgroundEndStep /\ ~cache'.outcome.ok) =>
          /\ cache'.hasRecord = cache.hasRecord
          /\ cache'.builtAt = cache.builtAt
          /\ cache'.last = cache.last
          /\ cache'.logged = cache.logged + 1
    /\ ImmediateReadStep =>
          /\ cache.hasRecord
          /\ cache'.last.kind = "doc"
          /\ cache'.last.docBuiltAt = cache.builtAt
    /\ (SyncEndStep /\ ~cache'.outcome.ok) =>
          /\ cache'.last.kind = "error"
          /\ cache'.last.docBuiltAt = NoDate
          /\ cache'.last.mode = Head(cache.pending)
          /\ cache'.hasRecord = cache.hasRecord
          /\ cache'.builtAt = cache.builtAt

Paging == pc \in { "paging", "paged" }

RECURSIVE PagesJoined(_, _)
\* the items of the first n responses, joined in the order of the requests
PagesJoined(calls, n) ==
    IF n = 0 THEN << >>
    ELSE PagesJoined(calls, n - 1) \o
         (IF "items" \in DOMAIN calls[n].body THEN calls[n].body.items
          ELSE << >>)

\* the response of request k had fewer than 100 items, or no items list
ShortPage(k) ==
    \/ ~("items" \in DOMAIN http.calls[k].body)
    \/ Len(http.calls[k].body.items) < 100

(* C24: in each sub-range the pages are requested as 1, 2, 3, ... ; the    *)
(* first page with fewer than 100 items (empty or without an items list   *)
(* included) is the last one requested for its sub-range; what is         *)
(* returned is the pages of all sub-ranges joined in request order.       *)
C24_PagesInOrder ==
    Paging =>
        /\ Len(http.calls) = Len(requests)
        /\ requests # << >> => requests[1].page = 1
        /\ \A k \in 1..(Len(requests) - 1) :
              IF ShortPage(k)
              THEN /\ requests[k + 1].from > requests[k].from
                   /\ requests[k + 1].page = 1
              ELSE /\ requests[k + 1].from = requests[k].from
                   /\ requests[k + 1].to = requests[k].to
                   /\ requests[k + 1].page = requests[k].page + 1
        /\ (pc = "paged" /\ requests # << >>) => ShortPage(Len(requests))
        /\ all = PagesJoined(http.calls, Len(requests))
        /\ \A k \in 1..Len(http.calls) : http.calls[k].status = 200

\* a search has returned after three pages of one sub-range, the third one
\* empty, and a response without an items list in the other
C24_Witness ==
    /\ pc = "paged"
    /\ \E k \in 1..Len(requests) :
          /\ requests[k].page = 3
          /\ "items" \in DOMAIN http.calls[k].body
          /\ http.calls[k].body.items = << >>
    /\ \E k \in 1..Len(requests) : ~("items" \in DOMAIN http.calls[k].body)
    /\ Len(all) >= 2 * PerPage

\* the sub-ranges requested so far
SubRangesRequested == { << requests[k].from, requests[k].to >> :
                          k \in 1..Len(requests) }

\* ceil((end - start) / stepDays), end - start in days
MaxSubRanges ==
    LET span == fetchArgs.end - fetchArgs.start
        step == fetchArgs.stepDays * TicksPerDay
    IN  (span + step - 1) \div step

C25_Bounded ==
    pc \in { "searching", "returned", "failed" } =>
        /\ fetchArgs.start < fetchArgs.end
        /\ fetchArgs.stepDays >= 1
        /\ fetchArgs.start <= cursor
        /\ cursor <= fetchArgs.end
        /\ Cardinality(SubRangesRequested) <= MaxSubRanges
        /\ pc = "returned" => cursor = fetchArgs.end

\* an outer iteration ends when the last page of its sub-range has come
C25_Step ==
    /\ cursor' >= cursor
    /\ (pc = "searching" /\ pc' = "searching" /\ requests' # requests
          /\ page' = 1) => cursor' > cursor

(* C25: for start < end and stepDays >= 1 searchByDateChunks returns or   *)
(* fails; the cursor grows on every outer iteration, stays within         *)
(* start..end and is end at the return, after at most                     *)
(* ceil((end - start) / stepDays) sub-ranges.                              *)
C25_Terminates ==
    /\ [] C25_Bounded
    /\ [][C25_Step]_vars
    /\ <>(pc \in { "returned", "failed" })

\* a search over 8 days by steps of 3 has returned after three sub-ranges,
\* the last one clamped to end
C25_Witness ==
    /\ pc = "returned"
    /\ fetchArgs.stepDays = 3
    /\ Cardinality(SubRangesRequested) = 3
    /\ cursor = fetchArgs.end
    /\ requests[Len(requests)].to - requests[Len(requests)].from < 3

\* username, display name, avatar reference, role
IdentityOf(entry) ==
    << entry.username, entry.name, entry.avatar_url, entry.role >>

C26_Step ==
    (pc = "fold" /\ users' # users) =>
        LET item == Head(queue)
            known == \E i \in 1..Len(users) :
                        users[i].username = item.user.login
        IN  /\ Len(users') = (IF known THEN Len(users) ELSE Len(users) + 1)
            /\ \A i \in 1..Len(users) :
                  /\ IdentityOf(users'[i]) = IdentityOf(users[i])
                  /\ users[i].username # item.user.login =>
                        users'[i] = users[i]
            /\ ~known =>
                  IdentityOf(users'[Len(users')]) =
                      << item.user.login, item.user.name,
                         item.user.avatar_url, "Contributor" >>
            /\ \A i, j \in 1..Len(users') :
                  users'[i].username = users'[j].username => i = j

(* C26: the username, display name, avatar reference and role of an entry *)
(* are those of the first event folded for its login; folding a later     *)
(* event of the login changes none of them, and the map never holds two   *)
(* entries for one login.                                                 *)
C26_FirstSeenIdentity == [][C26_Step]_vars

\* the three categories are folded; alice's entry, made from an event under
\* her first name, also counts an event that came under her later name
C26_Witness ==
    /\ pc = "write"
    /\ \E k \in 1..Len(upstream) :
          upstream[k].user = AliceLater /\ upstream[k].kind = "issue"
    /\ \E i \in 1..Len(users) :
          /\ users[i].username = "alice"
          /\ users[i].name = "Alice"
          /\ users[i].avatar_url = "alice.png"
          /\ Len(users[i].raw_activities) >= 2
          /\ "Issue opened" \in DOMAIN users[i].activity_breakdown
          /\ users[i].activity_breakdown["Issue opened"].count >= 1

\* PRs opened, then PRs merged, then issues opened
CategoryRank(x) ==
    CASE x \in { "is:pr", "PR opened" } -> 1
      [] x \in { "is:pr+is:merged", "PR merged" } -> 2
      [] x \in { "is:issue", "Issue opened" } -> 3

\* generateYear is running or has run
YearScript == pc \in { "fetch", "fold", "write", "derive", "recent" } \/ YearBuilt

\* the log of an entry: raw_activities, and in a derived period the
\* activities kept from it
LogOf(e) ==
    IF "raw_activities" \in DOMAIN e THEN e.raw_activities ELSE e.activities

C27_Ordered ==
    YearScript =>
        /\ \A i, j \in 1..Len(requests) :
              i < j => CategoryRank(requests[i].query)
                          <= CategoryRank(requests[j].query)
        /\ \A e \in AllEntries :
              \A i, j \in 1..Len(LogOf(e)) :
                  i < j => CategoryRank(LogOf(e)[i].type)
                              <= CategoryRank(LogOf(e)[j].type)

C27_Step ==
    /\ (YearScript /\ requests' # requests) =>
          /\ queue = << >>
          /\ \A k \in (Len(requests) + 1)..Len(requests') :
                CategoryRank(requests'[k].query) =
                    (IF requests = << >> THEN 1
                     ELSE CategoryRank(requests[Len(requests)].query) + 1)
    /\ (YearScript /\ users' # users) =>
          /\ requests' = requests
          /\ \E i \in 1..Len(users') :
                LET log == users'[i].raw_activities
                IN  /\ log # << >>
                    /\ CategoryRank(log[Len(log)].type) =
                          CategoryRank(requests[Len(requests)].query)

(* C27: within one build the searches are made category by category, PRs  *)
(* opened, then PRs merged, then issues opened, the events of a category  *)
(* are folded after its search has ended and before the next search       *)
(* starts; in every raw_activities log the PR-opened events come before   *)
(* the PR-merged events, and these before the issue-opened events.        *)
C27_CategoriesInSequence == [] C27_Ordered /\ [][C27_Step]_vars

\* a written entry logs an issue opened before a pull request that was
\* opened, and merged, after it: the log has the three types in the order
\* of the categories
C27_Witness ==
    /\ YearBuilt
    /\ \E e \in Range(yearData.entries) :
          /\ Len(e.raw_activities) = 3
          /\ e.raw_activities[1].type = "PR opened"
          /\ e.raw_activities[2].type = "PR merged"
          /\ e.raw_activities[3].type = "Issue opened"
          /\ e.raw_activities[3].occured_at < e.raw_activities[1].occured_at

\* entry b counts at least what entry a counts: in total, per type, per date
CountsWithin(a, b) ==
    /\ a.total_points <= b.total_points
    /\ \A t \in DOMAIN a.activity_breakdown :
          /\ t \in DOMAIN b.activity_breakdown
          /\ a.activity_breakdown[t].count <= b.activity_breakdown[t].count
    /\ \A i \in 1..Len(a.daily_activity) :
          \E j \in 1..Len(b.daily_activity) :
              /\ b.daily_activity[j].date = a.daily_activity[i].date
              /\ a.daily_activity[i].count <= b.daily_activity[j].count

(* C28: of two derived documents made at the same instant from the year   *)
(* document, the one of the fewer days holds only contributors of the     *)
(* other, each with total_points, counts per type and counts per date at  *)
(* most those of the other; every contributor of a derived document is in *)
(* the year document with total_points at least as large.                 *)
C28_DerivedNested ==
    /\ \A k1, k2 \in DerivedWritten :
          (/\ DerivedPeriods[k1].days < DerivedPeriods[k2].days
           /\ DerivedDoc(k1).updatedAt = DerivedDoc(k2).updatedAt) =>
              \A a \in Range(DerivedDoc(k1).entries) :
                  \E b \in Range(DerivedDoc(k2).entries) :
                      b.username = a.username /\ CountsWithin(a, b)
    /\ \A k \in DerivedWritten :
          \A a \in Range(DerivedDoc(k).entries) :
              \E y \in Range(yearData.entries) :
                  y.username = a.username
                      /\ a.total_points <= y.total_points

\* week.json and 2week.json are made at one instant and a contributor of
\* both has more points in the second; a contributor of a derived document
\* has more points in the year document
C28_Witness ==
    /\ { 1, 2 } \subseteq DerivedWritten
    /\ DerivedDoc(1).updatedAt = DerivedDoc(2).updatedAt
    /\ \E a \in Range(DerivedDoc(1).entries) :
          \E b \in Range(DerivedDoc(2).entries) :
              b.username = a.username /\ a.total_points < b.total_points
    /\ \E k \in DerivedWritten :
          \E a \in Range(DerivedDoc(k).entries) :
              \E y \in Range(yearData.entries) :
                  y.username = a.username /\ a.total_points < y.total_points

\* the listings of recent-activities.json
RecentListings ==
    UNION { { [ date |-> recent.groups[k].date, item |-> x ] :
                x \in Range(recent.groups[k].items) } :
            k \in 1..Len(recent.groups) }

\* the logged events of year.json, as << entry index, log index >> pairs
CanonicalEvents ==
    UNION { { << i, j >> : j \in 1..Len(yearData.entries[i].raw_activities) } :
            i \in 1..Len(yearData.entries) }

OccuredAt(ij) == yearData.entries[ij[1]].raw_activities[ij[2]].occured_at

(* C29: recent-activities.json lists every event of year.json whose       *)
(* timestamp is at or after now - N days, the events on the calendar date *)
(* of the cutoff included, and no event older than now - N days: the      *)
(* events derivePeriod(source, N) keeps at the same instant.              *)
C29_RecentSelectsWindow ==
    RecentWritten =>
        /\ \A ij \in CanonicalEvents :
              OccuredAt(ij) >= RecentCutoff => ListingOf(ij) \in RecentListings
        /\ \A x \in RecentListings :
              /\ \E ij \in CanonicalEvents : ListingOf(ij) = x
              /\ \A ij \in CanonicalEvents :
                    ListingOf(ij) = x => OccuredAt(ij) >= RecentCutoff

(* C30: with two pages or more, after any clicks on Next, Previous, the   *)
(* page buttons of the window and the button of the last page, the page   *)
(* shown is between 1 and totalPages, the window starts at 1 or later,    *)
(* and the page shown is one of the three pages of the window.            *)
C30_PageInWindow ==
    (pager.state = "on" /\ pager.totalPages >= 2) =>
        /\ 1 <= pager.currentPage
        /\ pager.currentPage <= pager.totalPages
        /\ pager.windowStart >= 1
        /\ pager.windowStart <= pager.currentPage
        /\ pager.currentPage <= pager.windowStart + 2

\* Previous has moved the window back, after the window had been moved
\* forward, in a section of five pages or more
C30_Witness ==
    /\ pager.state = "on"
    /\ pager.totalPages >= 5
    /\ pager.last = << "goToPrevious" >>
    /\ pager.windowStart > 1
    /\ pager.currentPage = pager.windowStart

=============================================================================
